---- MODULE Spec2Model ----
(***************************************************************************)
(* MCPConfigClient (src/mcp-client.py): the session manager that connects  *)
(* to named tool servers, lists their tools and forwards tool calls.       *)
(* Coroutines of one asyncio event loop are modelled as tasks: every       *)
(* action is the code that runs between two awaits of one coroutine.       *)
(***************************************************************************)
EXTENDS Integers, Sequences, FiniteSets, TLC

\* ---------------------------------------------------------------- bounds
NumTasks == 2          \* coroutines that may be in flight together
MaxSpawn == 2          \* transports spawned in one run
NumReaders == 1        \* of these, the tasks that also list and call tools

Tasks == 1..NumTasks
Readers == 1..NumReaders

\* ----------------------------------------------------------- small inputs
None == "None"
Names == {"a", "b"}               \* server names a caller may pass
Tomb == "<dummy>"                 \* a deleted slot of a dict's entry array

\* Tool names are sequences of characters, so that str.lower() is computed.
LowerChar(c) ==
  CASE c = "R" -> "r"
    [] c = "F" -> "f"
    [] c = "W" -> "w"
    [] OTHER -> c

lower(s) == [i \in 1..Len(s) |-> LowerChar(s[i])]

\* A tool as list_tools returns it: name and inputSchema.  hasSchema is
\* FALSE for a tool whose inputSchema is None or empty; hasRequired tells
\* whether the schema has a "required" key at all.
Tool(n, hs, hr, req) ==
  [name |-> n, hasSchema |-> hs, hasRequired |-> hr, required |-> req]

\* The catalogs the two servers answer list_tools with.
Catalog(srv) ==
  CASE srv = "a" -> << Tool(<<"R", "f">>, TRUE, TRUE, <<"p", "q">>),
                       Tool(<<"r", "f">>, TRUE, FALSE, <<>>),
                       Tool(<<"w">>, TRUE, TRUE, <<>>) >>
    [] srv = "b" -> << Tool(<<"r", "f">>, FALSE, FALSE, <<>>),
                       Tool(<<"W">>, TRUE, TRUE, <<"p">>) >>
    [] OTHER -> << >>

ToolNames == { <<"R", "F">>, <<"W">>, <<"x">> }
ArgKeys == {"p", "q"}
ArgMaps == { [k \in K |-> "v"] : K \in SUBSET ArgKeys }

\* Configuration documents: the file's state and its mcpServers entries in
\* file order.  enabled is "absent", "true" or "false"; command and args
\* tell whether the entry has that key.
Entry(n, en, c, a) == [name |-> n, enabled |-> en, command |-> c, args |-> a]
Configs ==
  { [file |-> "ok", servers |-> << Entry("a", "absent", TRUE, TRUE),
                                   Entry("b", "true", TRUE, TRUE) >>],
    [file |-> "ok", servers |-> << Entry("a", "true", TRUE, TRUE),
                                   Entry("b", "false", TRUE, TRUE) >>],
    [file |-> "ok", servers |-> << Entry("a", "absent", TRUE, TRUE),
                                   Entry("b", "absent", FALSE, TRUE) >>],
    [file |-> "missing", servers |-> << >>] }

\* ------------------------------------------------------------------ state
VARIABLES
  config_file,        \* the document behind self.config_file
  server_params,      \* names of the registry (self.server_params)
  config_loaded,      \* "no", "ok" or "failed": the startup load_config call
  sessions,           \* self.sessions: name -> session
  sessions_entries,   \* insertion-ordered entry array of the sessions dict
  stdio_transports,   \* self.stdio_transports: name -> transport
  active_servers,     \* self.active_servers
  exit_stack,         \* contexts entered on self.exit_stack, all still open
  pc,                 \* per task: where its coroutine is suspended
  op,                 \* per task: the operation it runs and its arguments
  loc,                \* per task: the local variables of the coroutine
  ret,                \* per task: what the operation returned or raised
  wire,               \* per task: requests this operation sent to servers
  descriptor,         \* the tool descriptor handed to the schema translation
  formatted_tools     \* the translations made of it, in call order

conn == <<sessions, sessions_entries, stdio_transports, active_servers>>
translation == <<descriptor, formatted_tools>>
vars == <<config_file, server_params, config_loaded, sessions, sessions_entries,
          stdio_transports, active_servers, exit_stack, pc, op, loc, ret, wire,
          descriptor, formatted_tools>>

\* ------------------------------------------------------- values and dicts
NoTool == Tool(<< >>, FALSE, FALSE, << >>)
NoArgs == [k \in {} |-> "v"]
NoReq == [srv |-> None, sid |-> 0, kind |-> "none", tool |-> << >>,
          args |-> NoArgs, st |-> "none"]
Req(srv, sid, kind, tool, args) ==
  [srv |-> srv, sid |-> sid, kind |-> kind, tool |-> tool, args |-> args,
   st |-> "pending"]

Pending == [kind |-> "pending", b |-> FALSE, list |-> << >>, val |-> NoReq]
RetBool(b) == [kind |-> "bool", b |-> b, list |-> << >>, val |-> NoReq]
RetNone == [kind |-> "None", b |-> FALSE, list |-> << >>, val |-> NoReq]
RetList(l) == [kind |-> "list", b |-> FALSE, list |-> l, val |-> NoReq]
RetVal(v) == [kind |-> "value", b |-> FALSE, list |-> << >>, val |-> v]
Raised == [kind |-> "raised", b |-> FALSE, list |-> << >>, val |-> NoReq]

NoOp == [name |-> "none", server |-> None, tool |-> << >>,
         argsNone |-> FALSE, args |-> NoArgs]
NoIt == [used |-> 0, pos |-> 0, len |-> 0]

\* The locals of a prompt in progress (send_prompt of src/mcp-client.py and
\* the POST /prompt handler of src/mcp_ui.py):
\*   key             whether ANTHROPIC_API_KEY is set
\*   request         server_contexts as the caller passed it
\*   server_contexts the servers the tools are collected from
\*   connected       connected_servers of the handler
\*   i, k, j         positions of the three loops (servers, tool calls,
\*                   servers searched for list_files)
\*   tools           available_tools / tools: <<name, server>> in order
\*   server_tool_map tool name -> server
\*   api             the requests made to the model API, in order
\*   stage           which request is awaited
\*   prompt          the caller's prompt text
\*   test_mode       whether the prompt contains "use list_files"
\*   content         the content blocks of the response
\*   tool_calls      the tool-use blocks found in it
\*   tool_results    tool_results / tools_used: the records made so far
\*   result          what the operation returns
\* A returned dict: error is its "error" key (absent reads FALSE), id its
\* "id", message the text of the exception it reports, response its
\* "response" text, hasTools whether it has a "tools" key.
NoResult == [error |-> FALSE, id |-> "none", message |-> "", response |-> << >>,
             content |-> << >>, hasTools |-> FALSE, tools |-> << >>]
NoFrame == [key |-> FALSE, request |-> [none |-> TRUE, list |-> << >>],
            server_contexts |-> << >>, connected |-> << >>,
            i |-> 0, k |-> 0, j |-> 0, tools |-> << >>,
            server_tool_map |-> [x \in {} |-> 0], api |-> << >>,
            stage |-> "none", prompt |-> "", test_mode |-> FALSE, content |-> << >>, tool_calls |-> << >>,
            tool_results |-> << >>, result |-> NoResult]

NoLoc == [t |-> 0, cur |-> None, it |-> NoIt, all_tools |-> << >>,
          errors |-> << >>, selected |-> NoTool, missing |-> << >>,
          arguments |-> NoArgs, prompt |-> NoFrame]

EmptyMap == [x \in {} |-> 0]
Keys(m) == DOMAIN m
DictPut(m, k, v) == [x \in Keys(m) \cup {k} |-> IF x = k THEN v ELSE m[x]]
DictDel(m, k) == [x \in Keys(m) \ {k} |-> m[x]]
\* the entry array: a new key is appended, a deleted key leaves a dummy
EntriesPut(e, m, k) == IF k \in Keys(m) THEN e ELSE Append(e, k)
EntriesDel(e, k) == [i \in 1..Len(e) |-> IF e[i] = k THEN Tomb ELSE e[i]]
KeyList(e) == SelectSeq(e, LAMBDA x : x # Tomb)

\* Transports and sessions are numbered in the order they are spawned; a
\* session carries the number of the transport it runs on.  The exit stack
\* is never unwound (nothing calls aclose), so only what it holds is kept.
Transports(stack) == {c \in stack : c.kind = "transport"}
NumSpawned == Cardinality(Transports(exit_stack))
Spawning == Cardinality({p \in Tasks : pc[p] = "c_spawn"})

\* no tool has been handed to the translation
NoDescriptor == [name |-> << >>, description |-> "", inputSchema |-> << >>]

\* ---------------------------------------------------------------- startup
Init ==
  /\ config_file \in Configs
  /\ server_params = {}
  /\ config_loaded = "no"
  /\ sessions = EmptyMap
  /\ sessions_entries = << >>
  /\ stdio_transports = EmptyMap
  /\ active_servers = {}
  /\ exit_stack = {}
  /\ pc = [p \in Tasks |-> "idle"]
  /\ op = [p \in Tasks |-> NoOp]
  /\ loc = [p \in Tasks |-> NoLoc]
  /\ ret = [p \in Tasks |-> Pending]
  /\ wire = [p \in Tasks |-> << >>]
  /\ descriptor = NoDescriptor
  /\ formatted_tools = << >>

\* (mutant) every entry is registered, whatever its enabled flag
load_entries_all(servers, params) ==
  [params |-> params \cup {servers[i].name : i \in 1..Len(servers)}, ok |-> TRUE]

\* load_config: the entries are registered one by one; an enabled entry
\* without "command" or "args" raises KeyError, which ends the loop with
\* the earlier entries already registered.
RECURSIVE load_entries(_, _)
load_entries(servers, params) ==
  IF servers = << >> THEN [params |-> params, ok |-> TRUE]
  ELSE LET e == Head(servers) IN
       IF e.enabled = "false" THEN load_entries(Tail(servers), params)
       ELSE IF ~e.command \/ ~e.args THEN [params |-> params, ok |-> FALSE]
       ELSE load_entries(Tail(servers), params \cup {e.name})

\* (mutant) the file is not opened: a missing or unparsable file loads as
\* an empty document
load_config_unchecked(cfg, params) == load_entries(cfg.servers, params)

load_config(cfg, params) ==
  IF cfg.file # "ok" THEN [params |-> params, ok |-> FALSE]
  ELSE load_entries(cfg.servers, params)

LoadConfig ==
  /\ config_loaded = "no"
  /\ LET r == load_config(config_file, server_params) IN
     /\ server_params' = r.params
     /\ config_loaded' = IF r.ok THEN "ok" ELSE "failed"
  /\ UNCHANGED <<translation, config_file, conn, exit_stack, pc, op, loc, ret, wire>>

\* ---------------------------------------------------------- task plumbing
Finish(p, r) ==
  /\ pc' = [pc EXCEPT ![p] = IF r.kind = "raised" THEN "raised" ELSE "done"]
  /\ ret' = [ret EXCEPT ![p] = r]

Goto(p, label) ==
  /\ pc' = [pc EXCEPT ![p] = label]
  /\ UNCHANGED ret

Send(p, r) == wire' = [wire EXCEPT ![p] = Append(@, r)]
Reply(p, ok) ==
  [wire[p] EXCEPT ![Len(wire[p])].st = IF ok THEN "ok" ELSE "fail"]

Begin(p, o) ==
  /\ config_loaded # "no"
  /\ pc[p] = "idle"
  /\ op' = [op EXCEPT ![p] = o]

\* The caller takes the result; the coroutine's frame is gone.
Return(p) ==
  /\ pc[p] \in {"done", "raised"}
  /\ pc' = [pc EXCEPT ![p] = "idle"]
  /\ op' = [op EXCEPT ![p] = NoOp]
  /\ loc' = [loc EXCEPT ![p] = NoLoc]
  /\ ret' = [ret EXCEPT ![p] = Pending]
  /\ wire' = [wire EXCEPT ![p] = << >>]
  /\ UNCHANGED <<translation, config_file, server_params, config_loaded, conn, exit_stack>>

\* ------------------------------------------------------ connect_to_server
\* (mutant) the already-connected test of line 195 left out
connect_precheck_always(n, params, sess) ==
  IF n \notin params THEN "unknown" ELSE "connect"

\* (mutant) the registry test of line 190 left out
connect_precheck_unregistered(n, params, sess) ==
  IF n \in Keys(sess) THEN "already" ELSE "connect"

\* lines 190-197: the two early returns, before any await.
connect_precheck(n, params, sess) ==
  IF n \notin params THEN "unknown"
  ELSE IF n \in Keys(sess) THEN "already"
  ELSE "connect"

ConnectStart(p, n) ==
  /\ Begin(p, [NoOp EXCEPT !.name = "connect", !.server = n])
  /\ LET c == connect_precheck(n, server_params, sessions) IN
     \/ /\ c = "unknown"
        /\ Finish(p, RetBool(FALSE))
     \/ /\ c = "already"
        /\ Finish(p, RetBool(TRUE))
     \/ /\ c = "connect"
        /\ NumSpawned + Spawning < MaxSpawn
        /\ Goto(p, "c_spawn")          \* await enter_async_context(stdio_client)
  /\ UNCHANGED <<translation, config_file, server_params, config_loaded, conn, exit_stack, loc, wire>>

\* line 205: the transport is registered as soon as it is spawned.
register_transport(tr, n, t) == DictPut(tr, n, t)

\* lines 204-210: the transport is up (or stdio_client raised); on success it
\* is pushed on the exit stack and registered, and the session is entered.
ConnectSpawn(p, ok) ==
  /\ pc[p] = "c_spawn"
  /\ IF ok
       THEN LET t == NumSpawned + 1 IN
            /\ exit_stack' = exit_stack \cup {[kind |-> "transport", id |-> t]}
            /\ stdio_transports' =
                 register_transport(stdio_transports, op[p].server, t)
            /\ loc' = [loc EXCEPT ![p].t = t]
            /\ Goto(p, "c_session")    \* await enter_async_context(ClientSession)
       ELSE /\ Finish(p, RetBool(FALSE))
            /\ UNCHANGED <<exit_stack, stdio_transports, loc>>
  /\ UNCHANGED <<translation, config_file, server_params, config_loaded, sessions, sessions_entries,
                 active_servers, op, wire>>

\* lines 210-216: the session is entered; initialize() is sent.
ConnectSession(p, ok) ==
  /\ pc[p] = "c_session"
  /\ IF ok
       THEN /\ exit_stack' =
                 exit_stack \cup {[kind |-> "session", id |-> loc[p].t]}
            /\ Send(p, Req(op[p].server, loc[p].t, "initialize", << >>, NoArgs))
            /\ Goto(p, "c_init")       \* await session.initialize()
       ELSE /\ Finish(p, RetBool(FALSE))
            /\ UNCHANGED <<exit_stack, wire>>
  /\ UNCHANGED <<translation, config_file, server_params, config_loaded, conn, op, loc>>

\* lines 216-229: the handshake answered; the session is stored, the server
\* marked active and list_tools() sent.
ConnectInit(p, ok) ==
  /\ pc[p] = "c_init"
  /\ IF ok
       THEN LET n == op[p].server IN
            /\ sessions' = DictPut(sessions, n, loc[p].t)
            /\ sessions_entries' = EntriesPut(sessions_entries, sessions, n)
            /\ active_servers' = active_servers \cup {n}
            /\ wire' = [wire EXCEPT ![p] =
                 Append(Reply(p, TRUE), Req(n, loc[p].t, "list_tools", << >>, NoArgs))]
            /\ Goto(p, "c_list")       \* await session.list_tools()
       ELSE /\ wire' = [wire EXCEPT ![p] = Reply(p, FALSE)]
            /\ Finish(p, RetBool(FALSE))
            /\ UNCHANGED <<sessions, sessions_entries, active_servers>>
  /\ UNCHANGED <<translation, config_file, server_params, config_loaded, stdio_transports, exit_stack,
                 op, loc>>

\* lines 228-240: a failed tools listing is only printed.
ConnectList(p, ok) ==
  /\ pc[p] = "c_list"
  /\ wire' = [wire EXCEPT ![p] = Reply(p, ok)]
  /\ Finish(p, RetBool(TRUE))
  /\ UNCHANGED <<translation, config_file, server_params, config_loaded, conn, exit_stack, op, loc>>

\* -------------------------------------------------------------- disconnect
\* (mutant) the not-connected test of line 258 left out: the removals are
\* tried at once
disconnect_one_unchecked(c, n) ==
  LET c1 == [c EXCEPT !.s = DictDel(c.s, n), !.e = EntriesDel(c.e, n),
                      !.tr = DictDel(c.tr, n), !.act = c.act \ {n}]
  IN [c |-> c1, ok |-> TRUE]

\* lines 258-271 on a connection state c = [s, e, tr, act]: the three
\* removals run in order inside one try; a KeyError ends them where it is
\* raised and the call returns False.
disconnect_one(c, n) ==
  IF n \notin Keys(c.s) THEN [c |-> c, ok |-> FALSE]
  ELSE LET c1 == [c EXCEPT !.s = DictDel(c.s, n), !.e = EntriesDel(c.e, n)] IN
       IF n \notin Keys(c.tr) THEN [c |-> c1, ok |-> FALSE]
       ELSE LET c2 == [c1 EXCEPT !.tr = DictDel(c.tr, n)] IN
            IF n \notin c.act THEN [c |-> c2, ok |-> FALSE]
            ELSE [c |-> [c2 EXCEPT !.act = c.act \ {n}], ok |-> TRUE]

\* lines 251-256: every key of a copy of the key list, in order.
RECURSIVE disconnect_each(_, _)
disconnect_each(c, names) ==
  IF names = << >> THEN c
  ELSE disconnect_each(disconnect_one(c, Head(names)).c, Tail(names))

disconnect(c, n) ==
  IF n = None THEN [c |-> disconnect_each(c, KeyList(c.e)), ok |-> TRUE]
  ELSE disconnect_one(c, n)

\* (mutant) disconnect also drops the server's descriptor from the registry
Disconnect_forget(p, n) ==
  /\ Begin(p, [NoOp EXCEPT !.name = "disconnect", !.server = n])
  /\ LET r == disconnect([s |-> sessions, e |-> sessions_entries,
                          tr |-> stdio_transports, act |-> active_servers], n) IN
     /\ sessions' = r.c.s
     /\ sessions_entries' = r.c.e
     /\ stdio_transports' = r.c.tr
     /\ active_servers' = r.c.act
     /\ Finish(p, RetBool(r.ok))
  /\ server_params' = server_params \ {n}
  /\ UNCHANGED <<translation, config_file, config_loaded, exit_stack, loc, wire>>

\* disconnect has no await that suspends: it is one step.
Disconnect(p, n) ==
  /\ Begin(p, [NoOp EXCEPT !.name = "disconnect", !.server = n])
  /\ LET r == disconnect([s |-> sessions, e |-> sessions_entries,
                          tr |-> stdio_transports, act |-> active_servers], n) IN
     /\ sessions' = r.c.s
     /\ sessions_entries' = r.c.e
     /\ stdio_transports' = r.c.tr
     /\ active_servers' = r.c.act
     /\ Finish(p, RetBool(r.ok))
  /\ UNCHANGED <<translation, config_file, server_params, config_loaded, exit_stack, loc, wire>>

\* -------------------------------------------------------------- list_tools
\* A dict iterator (CPython dictiter): used is the dict's size when the
\* iterator was made, pos the next slot of the entry array, len the keys
\* still expected.  next() raises RuntimeError when the size has changed,
\* or when a key turns up after the expected ones were all delivered.
dict_iter(m) ==
  [used |-> Cardinality(Keys(m)), pos |-> 1, len |-> Cardinality(Keys(m))]

NextSlot(e, pos) ==
  LET live == {i \in pos..Len(e) : e[i] # Tomb} IN
  IF live = {} THEN 0 ELSE CHOOSE i \in live : \A j \in live : i <= j

dict_next(m, e, it) ==
  IF it.used # Cardinality(Keys(m)) THEN [kind |-> "raise", key |-> None, it |-> it]
  ELSE LET i == NextSlot(e, it.pos) IN
       IF i = 0 THEN [kind |-> "stop", key |-> None, it |-> it]
       ELSE IF it.len = 0 THEN [kind |-> "raise", key |-> None, it |-> it]
       ELSE [kind |-> "yield", key |-> e[i],
             it |-> [it EXCEPT !.pos = i + 1, !.len = it.len - 1]]

\* lines 319-332: what one server's answer does to all_tools and to the
\* printed errors.
list_collect(l, srv, ok) ==
  IF ok THEN [l EXCEPT !.all_tools = @ \o Catalog(srv)]
  ELSE [l EXCEPT !.errors = Append(@, srv)]

\* The loop header of line 317 and the request of line 319, or the return
\* of line 334 when the iterator is exhausted.
ListAdvance(p, l, w, it) ==
  LET nx == dict_next(sessions, sessions_entries, it) IN
  \/ /\ nx.kind = "raise"
     /\ loc' = [loc EXCEPT ![p] = l]
     /\ wire' = [wire EXCEPT ![p] = w]
     /\ Finish(p, Raised)
  \/ /\ nx.kind = "stop"
     /\ loc' = [loc EXCEPT ![p] = l]
     /\ wire' = [wire EXCEPT ![p] = w]
     /\ Finish(p, RetList(l.all_tools))
  \/ /\ nx.kind = "yield"
     /\ loc' = [loc EXCEPT ![p] = [l EXCEPT !.cur = nx.key, !.it = nx.it]]
     /\ wire' = [wire EXCEPT ![p] =
          Append(w, Req(nx.key, sessions[nx.key], "list_tools", << >>, NoArgs))]
     /\ Goto(p, "l_all")               \* await sessions[srv_name].list_tools()

ListStart(p, n) ==
  /\ Begin(p, [NoOp EXCEPT !.name = "list_tools", !.server = n])
  /\ IF sessions = EmptyMap
       THEN Finish(p, RetList(<< >>)) /\ UNCHANGED <<loc, wire>>
     ELSE IF n # None
       THEN IF n \notin Keys(sessions)
              THEN Finish(p, RetList(<< >>)) /\ UNCHANGED <<loc, wire>>
              ELSE /\ loc' = [loc EXCEPT ![p].cur = n]
                   /\ Send(p, Req(n, sessions[n], "list_tools", << >>, NoArgs))
                   /\ Goto(p, "l_one")  \* await sessions[server_name].list_tools()
     ELSE ListAdvance(p, loc[p], wire[p], dict_iter(sessions))
  /\ UNCHANGED <<translation, config_file, server_params, config_loaded, conn, exit_stack>>

\* (mutant) a server whose listing failed is dropped from the active set
ListOne_evict(p, ok) ==
  /\ pc[p] = "l_one"
  /\ LET l == list_collect(loc[p], loc[p].cur, ok) IN
     /\ loc' = [loc EXCEPT ![p] = l]
     /\ wire' = [wire EXCEPT ![p] = Reply(p, ok)]
     /\ Finish(p, RetList(l.all_tools))
  /\ active_servers' = IF ok THEN active_servers ELSE active_servers \ {loc[p].cur}
  /\ UNCHANGED <<translation, config_file, server_params, config_loaded, sessions,
                 sessions_entries, stdio_transports, exit_stack, op>>

\* lines 300-314 and 334
ListOne(p, ok) ==
  /\ pc[p] = "l_one"
  /\ LET l == list_collect(loc[p], loc[p].cur, ok) IN
     /\ loc' = [loc EXCEPT ![p] = l]
     /\ wire' = [wire EXCEPT ![p] = Reply(p, ok)]
     /\ Finish(p, RetList(l.all_tools))
  /\ UNCHANGED <<translation, config_file, server_params, config_loaded, conn, exit_stack, op>>

\* lines 317-334
ListAll(p, ok) ==
  /\ pc[p] = "l_all"
  /\ ListAdvance(p, list_collect(loc[p], loc[p].cur, ok), Reply(p, ok), loc[p].it)
  /\ UNCHANGED <<translation, config_file, server_params, config_loaded, conn, exit_stack, op>>

\* --------------------------------------------------------------- call_tool
\* (mutant) the names compared as they are, without lower()
select_tool_exact(tools, tool_name) ==
  LET hits == {i \in 1..Len(tools) : tools[i].name = tool_name} IN
  IF hits = {} THEN 0 ELSE CHOOSE i \in hits : \A j \in hits : i <= j

\* lines 367-371: the first tool whose lowered name equals the lowered
\* request; 0 when there is none.
select_tool(tools, tool_name) ==
  LET hits == {i \in 1..Len(tools) : lower(tools[i].name) = lower(tool_name)} IN
  IF hits = {} THEN 0 ELSE CHOOSE i \in hits : \A j \in hits : i <= j

\* (mutant) only the first required property checked
missing_args_first(tool, arguments) ==
  IF tool.hasSchema /\ tool.hasRequired /\ tool.required # << >>
       /\ Head(tool.required) \notin DOMAIN arguments
    THEN << Head(tool.required) >>
    ELSE << >>

\* lines 380-382
missing_args(tool, arguments) ==
  IF tool.hasSchema /\ tool.hasRequired
    THEN SelectSeq(tool.required, LAMBDA a : a \notin DOMAIN arguments)
    ELSE << >>

\* lines 347-363
CallStart(p, n, tn, an, args) ==
  /\ Begin(p, [name |-> "call_tool", server |-> n, tool |-> tn,
               argsNone |-> an, args |-> IF an THEN NoArgs ELSE args])
  /\ IF sessions = EmptyMap \/ n \notin Keys(sessions)
       THEN Finish(p, RetNone) /\ UNCHANGED <<loc, wire>>
       ELSE /\ loc' = [loc EXCEPT ![p].arguments = IF an THEN NoArgs ELSE args]
            /\ Send(p, Req(n, sessions[n], "list_tools", << >>, NoArgs))
            /\ Goto(p, "t_list")       \* await sessions[server_name].list_tools()
  /\ UNCHANGED <<translation, config_file, server_params, config_loaded, conn, exit_stack>>

\* (mutant) the invocation is sent under the name the caller gave
CallListed_asked(p, ok) ==
  /\ pc[p] = "t_list"
  /\ LET n == op[p].server
         tools == Catalog(n)
         i == select_tool(tools, op[p].tool)
         miss == missing_args(tools[i], loc[p].arguments)
     IN
     IF ~ok \/ i = 0
       THEN /\ wire' = [wire EXCEPT ![p] = Reply(p, ok)]
            /\ Finish(p, RetNone)
            /\ UNCHANGED loc
     ELSE IF miss # << >>
       THEN /\ wire' = [wire EXCEPT ![p] = Reply(p, ok)]
            /\ loc' = [loc EXCEPT ![p].selected = tools[i], ![p].missing = miss]
            /\ Finish(p, RetNone)
     ELSE IF n \notin Keys(sessions)
       THEN /\ wire' = [wire EXCEPT ![p] = Reply(p, ok)]
            /\ loc' = [loc EXCEPT ![p].selected = tools[i]]
            /\ Finish(p, RetNone)
     ELSE /\ wire' = [wire EXCEPT ![p] = Append(Reply(p, ok),
               Req(n, sessions[n], "call_tool", op[p].tool, loc[p].arguments))]
          /\ loc' = [loc EXCEPT ![p].selected = tools[i]]
          /\ Goto(p, "t_call")
  /\ UNCHANGED <<translation, config_file, server_params, config_loaded, conn, exit_stack, op>>

\* (mutant) the session looked up at line 363 is kept and used for the call
CallListed_stale(p, ok) ==
  /\ pc[p] = "t_list"
  /\ LET n == op[p].server
         tools == Catalog(n)
         i == select_tool(tools, op[p].tool)
         miss == missing_args(tools[i], loc[p].arguments)
     IN
     IF ~ok \/ i = 0
       THEN /\ wire' = [wire EXCEPT ![p] = Reply(p, ok)]
            /\ Finish(p, RetNone)
            /\ UNCHANGED loc
     ELSE IF miss # << >>
       THEN /\ wire' = [wire EXCEPT ![p] = Reply(p, ok)]
            /\ loc' = [loc EXCEPT ![p].selected = tools[i], ![p].missing = miss]
            /\ Finish(p, RetNone)
     ELSE /\ wire' = [wire EXCEPT ![p] = Append(Reply(p, ok),
               Req(n, wire[p][1].sid, "call_tool", tools[i].name, loc[p].arguments))]
          /\ loc' = [loc EXCEPT ![p].selected = tools[i]]
          /\ Goto(p, "t_call")
  /\ UNCHANGED <<translation, config_file, server_params, config_loaded, conn, exit_stack, op>>

\* lines 363-390: the catalog arrived (or list_tools raised); the tool is
\* resolved, the arguments checked and the call sent.
CallListed(p, ok) ==
  /\ pc[p] = "t_list"
  /\ LET n == op[p].server
         tools == Catalog(n)
         i == select_tool(tools, op[p].tool)
         miss == missing_args(tools[i], loc[p].arguments)
     IN
     IF ~ok \/ i = 0
       THEN /\ wire' = [wire EXCEPT ![p] = Reply(p, ok)]
            /\ Finish(p, RetNone)
            /\ UNCHANGED loc
     ELSE IF miss # << >>
       THEN /\ wire' = [wire EXCEPT ![p] = Reply(p, ok)]
            /\ loc' = [loc EXCEPT ![p].selected = tools[i], ![p].missing = miss]
            /\ Finish(p, RetNone)
     ELSE IF n \notin Keys(sessions)   \* KeyError, caught at line 395
       THEN /\ wire' = [wire EXCEPT ![p] = Reply(p, ok)]
            /\ loc' = [loc EXCEPT ![p].selected = tools[i]]
            /\ Finish(p, RetNone)
     ELSE /\ wire' = [wire EXCEPT ![p] = Append(Reply(p, ok),
               Req(n, sessions[n], "call_tool", tools[i].name, loc[p].arguments))]
          /\ loc' = [loc EXCEPT ![p].selected = tools[i]]
          /\ Goto(p, "t_call")         \* await sessions[server_name].call_tool()
  /\ UNCHANGED <<translation, config_file, server_params, config_loaded, conn, exit_stack, op>>

\* lines 390-401: the result is returned as it is; a failure is printed.
call_result(w, ok) == IF ok THEN RetVal(w[Len(w)]) ELSE RetNone

\* (mutant) a failed invocation sent once more
CallReturned_retry(p, ok) ==
  /\ pc[p] = "t_call"
  /\ IF ~ok /\ Len(wire[p]) < 3
       THEN /\ wire' = [wire EXCEPT ![p] =
                 Append(Reply(p, ok), [wire[p][Len(wire[p])] EXCEPT !.st = "pending"])]
            /\ Goto(p, "t_call")
       ELSE /\ wire' = [wire EXCEPT ![p] = Reply(p, ok)]
            /\ Finish(p, call_result(Reply(p, ok), ok))
  /\ UNCHANGED <<translation, config_file, server_params, config_loaded, conn, exit_stack, op, loc>>

CallReturned(p, ok) ==
  /\ pc[p] = "t_call"
  /\ wire' = [wire EXCEPT ![p] = Reply(p, ok)]
  /\ Finish(p, call_result(Reply(p, ok), ok))
  /\ UNCHANGED <<translation, config_file, server_params, config_loaded, conn, exit_stack, op, loc>>

\* ------------------------------------------------------------------- spec
\* The session manager's mutating operations.
Next ==
  \/ LoadConfig
  \/ \E p \in Tasks, n \in Names : ConnectStart(p, n)
  \/ \E p \in Tasks, ok \in BOOLEAN : ConnectSpawn(p, ok)
  \/ \E p \in Tasks, ok \in BOOLEAN : ConnectSession(p, ok)
  \/ \E p \in Tasks, ok \in BOOLEAN : ConnectInit(p, ok)
  \/ \E p \in Tasks, ok \in BOOLEAN : ConnectList(p, ok)
  \/ \E p \in Tasks, n \in Names \cup {None} : Disconnect(p, n)
  \/ \E p \in Tasks : Return(p)

Spec == Init /\ [][Next]_vars

\* The same with the listing and calling operations.
NextTools ==
  \/ Next
  \/ \E p \in Readers, n \in Names \cup {None} : ListStart(p, n)
  \/ \E p \in Readers, ok \in BOOLEAN : ListOne(p, ok)
  \/ \E p \in Readers, ok \in BOOLEAN : ListAll(p, ok)
  \/ \E p \in Readers, n \in Names, tn \in ToolNames, args \in ArgMaps :
       CallStart(p, n, tn, FALSE, args)
  \/ \E p \in Readers, n \in Names, tn \in ToolNames :
       CallStart(p, n, tn, TRUE, NoArgs)
  \/ \E p \in Readers, ok \in BOOLEAN : CallListed(p, ok)
  \/ \E p \in Readers, ok \in BOOLEAN : CallReturned(p, ok)

SpecTools == Init /\ [][NextTools]_vars

\* ================================================================ prompts
\* ------------------------------------------------------------ the model API
\* Content blocks of a response.  Texts are sequences of words, so that
\* concatenation is computed.
Text(t) == [type |-> "text", text |-> t, name |-> << >>, input |-> NoArgs]
ToolUse(n, inp) == [type |-> "tool_use", text |-> << >>, name |-> n, input |-> inp]

\* The handler of src/mcp_ui.py knows tools by name: in this catalog "w"
\* stands for list_files and the argument "p" for its directory.
list_files == <<"w">>
directory == "p"
echo == <<"echo">>

\* What the model may answer with.
Responses ==
  { << Text(<<"t">>) >>,
    << Text(<<"t">>), ToolUse(<<"w">>, [k \in {"p"} |-> "v"]), Text(<<"u">>) >>,
    << ToolUse(<<"x">>, NoArgs), ToolUse(<<"w">>, NoArgs) >>,
    << ToolUse(<<"w">>, NoArgs), ToolUse(<<"W">>, [k \in {"p"} |-> "v"]) >>,
    << ToolUse(<<"r", "f">>, NoArgs) >>,
    << ToolUse(<<"W">>, NoArgs) >> }

\* The outcome of one request: an exception of the library, or a response.
Answers ==
  {[ok |-> FALSE, content |-> << >>]}
    \cup {[ok |-> TRUE, content |-> c] : c \in Responses}

\* server_contexts as the caller passes it: None, or a list of names.
Contexts ==
  {[none |-> TRUE, list |-> << >>]}
    \cup {[none |-> FALSE, list |-> l] :
            l \in {<< >>, <<"a">>, <<"a", "b">>, <<"b", "a">>}}

\* The prompt texts a caller may pass, and the test of line 471 of
\* src/mcp_ui.py on them: "use list_files" in request.prompt.lower()
Prompts == {"hello", "Use list_files on /tmp"}
test_tool_mode(prompt) == prompt \in {"Use list_files on /tmp"}

\* One request to the model API: which call of the code made it, the
\* content of its user message, the names of the tools it offered, and how
\* it ended.
ApiReq(kind, user, tools, ok) ==
  [kind |-> kind, user |-> user, tools |-> tools,
   st |-> IF ok THEN "ok" ELSE "fail"]
\* A request whose outcome the code does not look at: answered or raised, it
\* goes on the same way.
ApiDone(kind, user, tools) ==
  [kind |-> kind, user |-> user, tools |-> tools, st |-> "done"]

NamesOf(tools) == [i \in 1..Len(tools) |-> tools[i].name]

\* A record of tool_results (src/mcp-client.py) or tools_used (src/mcp_ui.py):
\* has tells which of the keys "result" and "error" it carries.
Record(name, server, input, has, val) ==
  [name |-> name, server |-> server, input |-> input, has |-> has, val |-> val]

\* What a tool call's outcome looks like in a record.  src/mcp-client.py
\* stores the object call_tool returned; src/mcp_ui.py stores the joined
\* text of its content, or str(result), which for None is the word "None".
raw_result(r) ==
  IF r.kind = "value"
    THEN [srv |-> r.val.srv, tool |-> r.val.tool, text |-> "CallToolResult"]
    ELSE [srv |-> None, tool |-> << >>, text |-> "null"]

result_content(r) ==
  IF r.kind = "value"
    THEN [srv |-> r.val.srv, tool |-> r.val.tool, text |-> "content"]
    ELSE [srv |-> None, tool |-> << >>, text |-> "None"]

\* (mutant) every name is bound to the first selected server
add_tools_first(f, srv, tools) ==
  LET names == {tools[i].name : i \in 1..Len(tools)} IN
  [f EXCEPT
     !.tools = @ \o [i \in 1..Len(tools) |-> [name |-> tools[i].name, server |-> srv]],
     !.server_tool_map =
        [x \in Keys(@) \cup names |->
           IF x \in names THEN f.server_contexts[1] ELSE @[x]]]

\* lines 494-495 of src/mcp-client.py and 373-374 of src/mcp_ui.py, for the
\* tools of one server in catalog order: every tool is appended, and its
\* name is (re)bound to this server.
add_tools(f, srv, tools) ==
  LET names == {tools[i].name : i \in 1..Len(tools)} IN
  [f EXCEPT
     !.tools = @ \o [i \in 1..Len(tools) |-> [name |-> tools[i].name, server |-> srv]],
     !.server_tool_map =
        [x \in Keys(@) \cup names |-> IF x \in names THEN srv ELSE @[x]]]

\* The prompt's result is a dict: the task's result says so, the dict is
\* kept in the frame.
RetDict == [kind |-> "dict", b |-> FALSE, list |-> << >>, val |-> NoReq]

FinishPrompt(p, f, w, res) ==
  /\ loc' = [loc EXCEPT ![p].prompt = [f EXCEPT !.result = res]]
  /\ wire' = [wire EXCEPT ![p] = w]
  /\ Finish(p, RetDict)

\* --------------------------------------------- send_prompt (src/mcp-client.py)
\* lines 413-417
resolve_contexts(ctx, entries, sess) ==
  IF ctx.none /\ sess # EmptyMap THEN KeyList(entries)
  ELSE IF ctx.none THEN << >>
  ELSE ctx.list

\* lines 425-426: the names that are not in the session map are passed over.
RECURSIVE sp_collect(_, _)
sp_collect(f, sess) ==
  IF f.i > Len(f.server_contexts) THEN f
  ELSE IF f.server_contexts[f.i] \in Keys(sess) THEN f
  ELSE sp_collect([f EXCEPT !.i = @ + 1], sess)

\* lines 670-683: the tool-use blocks, each with the server the map names.
sp_tool_calls(content, map) ==
  LET uses == SelectSeq(content, LAMBDA b : b.type = "tool_use") IN
  [i \in 1..Len(uses) |->
     [name |-> uses[i].name, input |-> uses[i].input,
      server |-> IF uses[i].name \in Keys(map) THEN map[uses[i].name] ELSE None]]

\* lines 687-692: the calls without a connected server are passed over
\* without a record.
RECURSIVE sp_dispatch(_, _)
sp_dispatch(f, sess) ==
  IF f.k > Len(f.tool_calls) THEN f
  ELSE IF f.tool_calls[f.k].server # None /\ f.tool_calls[f.k].server \in Keys(sess)
    THEN f
  ELSE sp_dispatch([f EXCEPT !.k = @ + 1], sess)

\* lines 660-723: what is returned for a response.
sp_result(f) ==
  [NoResult EXCEPT !.id = "response", !.content = f.content,
                   !.hasTools = f.tool_calls # << >>,
                   !.tools = f.tool_results]

\* lines 724-735
sp_error(msg) == [NoResult EXCEPT !.error = TRUE, !.message = msg]

\* call_tool as the prompt awaits it (lines 347-363 of src/mcp-client.py,
\* the two tests passed): the catalog is asked for.
StartCall(p, f, w, srv, args) ==
  /\ loc' = [loc EXCEPT ![p].prompt = f, ![p].cur = srv, ![p].arguments = args,
                        ![p].selected = NoTool, ![p].missing = << >>]
  /\ wire' = [wire EXCEPT ![p] =
       Append(w, Req(srv, sessions[srv], "list_tools", << >>, NoArgs))]
  /\ Goto(p, "p_t_list")               \* await sessions[server_name].list_tools()

\* lines 685-717: the loop goes on to the next call that has a connected
\* server, or ends and the dict is returned.
SendPromptResume(p, f, w) ==
  LET g == sp_dispatch(f, sessions) IN
  IF g.k > Len(g.tool_calls)
    THEN FinishPrompt(p, g, w, sp_result(g))
    ELSE StartCall(p, g, w, g.tool_calls[g.k].server, g.tool_calls[g.k].input)

\* lines 696-705: call_tool returned r (it raises nothing: the except branch
\* of line 706 is never entered).
sp_record(f, r) ==
  LET c == f.tool_calls[f.k] IN
  [f EXCEPT !.tool_results =
              Append(@, Record(c.name, c.server, c.input, "result", raw_result(r))),
            !.k = @ + 1]

\* lines 598-642: the request is made with the synchronous client, so the
\* answer is there when the call returns; awaiting it raises TypeError, and
\* a failed request raises as well: either way line 642 hands call_anthropic
\* to the thread pool.
SendPromptDirect(p, f, w) ==
  /\ loc' = [loc EXCEPT ![p].prompt =
       [f EXCEPT !.api = Append(@, ApiDone("direct", f.prompt,
                    IF f.server_contexts # << >> /\ f.tools # << >>
                      THEN NamesOf(f.tools) ELSE << >>)),
                 !.stage = "pool"]]
  /\ wire' = [wire EXCEPT ![p] = w]
  /\ Goto(p, "sp_pool")                \* await loop.run_in_executor(call_anthropic)

\* lines 425-429: the next selected server that is connected is asked for
\* its tools; after the last one the request is made.
SendPromptCollect(p, f, w) ==
  LET g == sp_collect(f, sessions) IN
  IF g.i > Len(g.server_contexts)
    THEN SendPromptDirect(p, g, w)
    ELSE LET srv == g.server_contexts[g.i] IN
         /\ loc' = [loc EXCEPT ![p].prompt = g]
         /\ wire' = [wire EXCEPT ![p] =
              Append(w, Req(srv, sessions[srv], "list_tools", << >>, NoArgs))]
         /\ Goto(p, "sp_list")         \* await sessions[server_name].list_tools()

\* lines 405-429.  The key is read from the environment when the module is
\* imported.
SendPromptStart(p, message, key, ctx) ==
  /\ Begin(p, [NoOp EXCEPT !.name = "send_prompt"])
  /\ LET f == [NoFrame EXCEPT !.key = key, !.request = ctx, !.i = 1,
                 !.prompt = message,
                 !.server_contexts = resolve_contexts(ctx, sessions_entries, sessions)]
     IN
     IF ~key
       THEN /\ loc' = [loc EXCEPT ![p].prompt = [NoFrame EXCEPT !.key = key]]
            /\ Finish(p, RetNone)
            /\ UNCHANGED wire
       ELSE SendPromptCollect(p, f, wire[p])
  /\ UNCHANGED <<translation, config_file, server_params, config_loaded, conn, exit_stack>>

\* lines 429-498: the listing answered, or raised (line 497).
SendPromptListed(p, ok) ==
  /\ pc[p] = "sp_list"
  /\ LET f == loc[p].prompt
         srv == f.server_contexts[f.i]
         g == IF ok THEN add_tools(f, srv, Catalog(srv)) ELSE f
     IN SendPromptCollect(p, [g EXCEPT !.i = @ + 1], Reply(p, ok))
  /\ UNCHANGED <<translation, config_file, server_params, config_loaded, conn, exit_stack, op>>

\* lines 513-596 and 644-735: call_anthropic ran in the pool.  With tools in
\* the request, line 536 reads available_tools[0]['function'] and raises
\* KeyError before any request; otherwise the request is made and answered.
SendPromptPooled(p, ans) ==
  /\ pc[p] = "sp_pool"
  /\ LET f == loc[p].prompt IN
     IF f.server_contexts # << >> /\ f.tools # << >>
       THEN FinishPrompt(p, f, wire[p], sp_error("'function'"))
     ELSE LET g == [f EXCEPT !.api = Append(@, ApiReq("pool", f.prompt, << >>, ans.ok))] IN
       IF ~ans.ok
         THEN FinishPrompt(p, g, wire[p], sp_error("api error"))
         ELSE SendPromptResume(p,
                [g EXCEPT !.content = ans.content, !.k = 1,
                          !.tool_calls = sp_tool_calls(ans.content, f.server_tool_map)],
                wire[p])
  /\ UNCHANGED <<translation, config_file, server_params, config_loaded, conn, exit_stack, op>>

\* ------------------------------------------ POST /prompt (src/mcp_ui.py)
list_directory == <<"list_directory">>
\* the user message of the request that tries the tool format (line 430)
test_user_msg == "List the files in the /tmp directory using the list_files tool."

\* list(self.active_servers): a set is listed in an order of its own.
Orders(S) ==
  {o \in [1..Cardinality(S) -> S] : \A x \in S : \E i \in DOMAIN o : o[i] = x}

\* (mutant) the tools of every connected server are collected, whatever the
\* request selects
post_contexts_all(ctx, connected) == connected

\* line 174
post_contexts(ctx, connected) ==
  IF ctx.none \/ ctx.list = << >> THEN connected ELSE ctx.list

\* lines 296-300 with list_tools(server) of src/mcp-client.py (287-299): no
\* request is made for a server that is not in the session map.
RECURSIVE post_collect(_, _)
post_collect(f, sess) ==
  IF f.i > Len(f.server_contexts) THEN f
  ELSE IF sess # EmptyMap /\ f.server_contexts[f.i] \in Keys(sess) THEN f
  ELSE post_collect([f EXCEPT !.i = @ + 1], sess)

\* (mutant) the text stops after the first text block
post_text_first(content) ==
  LET texts == SelectSeq(content, LAMBDA b : b.type = "text") IN
  IF texts = << >> THEN << >> ELSE texts[1].text

\* lines 534-552 (and 215-227, 666-678): the text blocks are concatenated;
\* text and tool-use blocks are copied to the content list.
RECURSIVE post_text(_)
post_text(content) ==
  IF content = << >> THEN << >>
  ELSE (IF Head(content).type = "text" THEN Head(content).text ELSE << >>)
         \o post_text(Tail(content))

post_content(content) ==
  SelectSeq(content, LAMBDA b : b.type \in {"text", "tool_use"})

\* lines 539-546: the tool-use blocks; the server is looked up at dispatch.
post_tool_calls(content) ==
  LET uses == SelectSeq(content, LAMBDA b : b.type = "tool_use") IN
  [i \in 1..Len(uses) |->
     [name |-> uses[i].name, input |-> uses[i].input, server |-> None]]

\* lines 597-603, 746-752
post_result(f) ==
  [NoResult EXCEPT !.id = "response", !.response = post_text(f.content),
                   !.content = post_content(f.content),
                   !.hasTools = TRUE, !.tools = f.tool_results]

\* lines 267-273 and 692-693, 755-761: the error is returned as the text.
post_error_text(f) ==
  [NoResult EXCEPT !.id = "error",
                   !.response = <<"Error communicating with API:", "api error">>,
                   !.content = << Text(<<"Error communicating with API:", "api error">>) >>,
                   !.hasTools = TRUE, !.tools = f.tool_results]

\* lines 557-564 with the two tests of call_tool (347-353): a call whose
\* name is not in the map gets no record; a call whose server is not in the
\* session map gets the record of a None result without any request.
RECURSIVE post_dispatch(_, _)
post_dispatch(f, sess) ==
  IF f.k > Len(f.tool_calls) THEN f
  ELSE LET c == f.tool_calls[f.k] IN
       IF c.name \notin Keys(f.server_tool_map)
         THEN post_dispatch([f EXCEPT !.k = @ + 1], sess)
       ELSE IF sess = EmptyMap \/ f.server_tool_map[c.name] \notin Keys(sess)
         THEN post_dispatch(
                [f EXCEPT !.k = @ + 1,
                          !.tool_results = Append(@,
                             Record(c.name, f.server_tool_map[c.name], c.input,
                                    "result", result_content(RetNone)))], sess)
       ELSE f

\* (mutant) the newest record is put in front
post_record_front(f, r) ==
  LET c == f.tool_calls[f.k] IN
  [f EXCEPT !.tool_results =
              << Record(c.name, f.server_tool_map[c.name], c.input,
                        "result", result_content(r)) >> \o @,
            !.k = @ + 1]

\* lines 567-586
post_record(f, r) ==
  LET c == f.tool_calls[f.k] IN
  [f EXCEPT !.tool_results =
              Append(@, Record(c.name, f.server_tool_map[c.name], c.input,
                               "result", result_content(r))),
            !.k = @ + 1]

PostPromptResume(p, f, w) ==
  LET g == post_dispatch(f, sessions) IN
  IF g.k > Len(g.tool_calls)
    THEN FinishPrompt(p, g, w, post_result(g))
    ELSE StartCall(p, g, w, g.server_tool_map[g.tool_calls[g.k].name],
                   g.tool_calls[g.k].input)

\* lines 698-712: only list_files calls with a directory are looked at; the
\* connected servers are asked for their tools in turn, without a request
\* for one that is not in the session map.
RECURSIVE fallback_dispatch(_, _)
fallback_dispatch(f, sess) ==
  IF f.k > Len(f.tool_calls) THEN f
  ELSE LET c == f.tool_calls[f.k] IN
       IF ~(c.name = list_files /\ directory \in DOMAIN c.input)
         THEN fallback_dispatch([f EXCEPT !.k = @ + 1, !.j = 1], sess)
       ELSE IF f.j > Len(f.connected)
         THEN fallback_dispatch([f EXCEPT !.k = @ + 1, !.j = 1], sess)
       ELSE IF sess = EmptyMap \/ f.connected[f.j] \notin Keys(sess)
         THEN fallback_dispatch([f EXCEPT !.j = @ + 1], sess)
       ELSE f

\* lines 716-734
fallback_record(f, srv, r) ==
  LET c == f.tool_calls[f.k] IN
  [f EXCEPT !.tool_results =
              Append(@, Record(c.name, srv, c.input, "result", result_content(r))),
            !.k = @ + 1, !.j = 1]

PostFallbackResume(p, f, w) ==
  LET g == fallback_dispatch(f, sessions) IN
  IF g.k > Len(g.tool_calls)
    THEN FinishPrompt(p, g, w, post_result(g))
    ELSE LET srv == g.connected[g.j] IN
         /\ loc' = [loc EXCEPT ![p].prompt = g, ![p].cur = srv]
         /\ wire' = [wire EXCEPT ![p] =
              Append(w, Req(srv, sessions[srv], "list_tools", << >>, NoArgs))]
         /\ Goto(p, "pf_list")         \* await client.list_tools(server)

\* lines 435-523: the test request is made with the synchronous client and
\* its outcome only printed; then the request proper goes to the pool.
PostPromptRequest(p, f, w) ==
  /\ loc' = [loc EXCEPT ![p].prompt =
       [f EXCEPT !.api = Append(@, ApiDone("test", test_user_msg, << list_files >>)),
                 !.stage = "real"]]
  /\ wire' = [wire EXCEPT ![p] = w]
  /\ Goto(p, "pp_real")                \* await loop.run_in_executor(...)

\* lines 296-297
PostPromptCollect(p, f, w) ==
  LET g == post_collect(f, sessions) IN
  IF g.i > Len(g.server_contexts)
    THEN PostPromptRequest(p, g, w)
    ELSE LET srv == g.server_contexts[g.i] IN
         /\ loc' = [loc EXCEPT ![p].prompt = g]
         /\ wire' = [wire EXCEPT ![p] =
              Append(w, Req(srv, sessions[srv], "list_tools", << >>, NoArgs))]
         /\ Goto(p, "pp_list")         \* await client.list_tools(server)

\* lines 163-196 and 276-297.  The key is there: without it the module does
\* not import (AnthropicClient() at line 63 raises).
PostPromptStart(p, ctx, prompt) ==
  /\ Begin(p, [NoOp EXCEPT !.name = "post_prompt"])
  /\ \E connected \in Orders(active_servers) :
       LET f == [NoFrame EXCEPT !.key = TRUE, !.request = ctx,
                   !.connected = connected, !.i = 1,
                   !.server_contexts = post_contexts(ctx, connected),
                   !.prompt = prompt,
                   !.test_mode = test_tool_mode(prompt)]
       IN
       IF connected = << >>
         THEN /\ loc' = [loc EXCEPT ![p].prompt = [f EXCEPT !.stage = "minimal"]]
              /\ Goto(p, "pp_minimal")  \* await loop.run_in_executor(...)
              /\ UNCHANGED wire
         ELSE PostPromptCollect(p, f, wire[p])
  /\ UNCHANGED <<translation, config_file, server_params, config_loaded, conn, exit_stack>>

\* lines 297-374: list_tools(server) returned the catalog, or [] after a
\* failure (src/mcp-client.py 313-314).
PostPromptListed(p, ok) ==
  /\ pc[p] = "pp_list"
  /\ LET f == loc[p].prompt
         srv == f.server_contexts[f.i]
         g == IF ok THEN add_tools(f, srv, Catalog(srv)) ELSE f
     IN PostPromptCollect(p, [g EXCEPT !.i = @ + 1], Reply(p, ok))
  /\ UNCHANGED <<translation, config_file, server_params, config_loaded, conn, exit_stack, op>>

\* lines 197-249: no server connected; the request offers the echo tool,
\* and a failure is followed by a request without tools.
PostMinimalAnswered(p, ans) ==
  /\ pc[p] = "pp_minimal"
  /\ LET f == loc[p].prompt
         g == [f EXCEPT !.api = Append(@, ApiReq("minimal", f.prompt, << echo >>, ans.ok))]
     IN
     IF ans.ok
       THEN FinishPrompt(p, [g EXCEPT !.content = ans.content], wire[p],
              [post_result([g EXCEPT !.content = ans.content])
                 EXCEPT !.tools = << >>])
       ELSE /\ loc' = [loc EXCEPT ![p].prompt = [g EXCEPT !.stage = "plain"]]
            /\ Goto(p, "pp_plain")     \* await loop.run_in_executor(...)
            /\ UNCHANGED wire
  /\ UNCHANGED <<translation, config_file, server_params, config_loaded, conn, exit_stack, op>>

\* lines 250-273: only the text blocks are kept.
PostPlainAnswered(p, ans) ==
  /\ pc[p] = "pp_plain"
  /\ LET f == loc[p].prompt
         g == [f EXCEPT !.api = Append(@, ApiReq("plain", f.prompt, << >>, ans.ok)),
                        !.content = ans.content]
     IN
     IF ans.ok
       THEN FinishPrompt(p, g, wire[p],
              [post_result(g) EXCEPT
                 !.content = SelectSeq(ans.content, LAMBDA b : b.type = "text"),
                 !.tools = << >>])
       ELSE FinishPrompt(p, g, wire[p], post_error_text(g))
  /\ UNCHANGED <<translation, config_file, server_params, config_loaded, conn, exit_stack, op>>

\* the user message of the request proper (lines 494 and 502)
real_user_msg(f) ==
  IF f.test_mode
    THEN "Please list files in the /tmp directory using the list_files tool."
    ELSE f.prompt

\* the tools the request proper offers (lines 471-505)
real_tools(f) == IF f.test_mode THEN << list_files >> ELSE NamesOf(f.tools)

\* lines 520-603: the answer is scanned and the tool calls dispatched; a
\* request that raised is followed (line 605) by the one-tool request.
PostRealAnswered(p, ans) ==
  /\ pc[p] = "pp_real"
  /\ LET f == loc[p].prompt
         g == [f EXCEPT !.api = Append(@, ApiReq("real", real_user_msg(f), real_tools(f), ans.ok))]
     IN
     IF ans.ok
       THEN PostPromptResume(p,
              [g EXCEPT !.content = ans.content, !.k = 1,
                        !.tool_calls = post_tool_calls(ans.content)], wire[p])
       ELSE /\ loc' = [loc EXCEPT ![p].prompt = [g EXCEPT !.stage = "fallback"]]
            /\ Goto(p, "pp_fallback")  \* await loop.run_in_executor(...)
            /\ UNCHANGED wire
  /\ UNCHANGED <<translation, config_file, server_params, config_loaded, conn, exit_stack, op>>

\* lines 646-761
PostFallbackAnswered(p, ans) ==
  /\ pc[p] = "pp_fallback"
  /\ LET f == loc[p].prompt
         g == [f EXCEPT !.api = Append(@, ApiReq("fallback", f.prompt, << list_files >>, ans.ok))]
     IN
     IF ans.ok
       THEN PostFallbackResume(p,
              [g EXCEPT !.content = ans.content, !.k = 1, !.j = 1,
                        !.tool_calls = post_tool_calls(ans.content)], wire[p])
       ELSE FinishPrompt(p, g, wire[p], post_error_text(g))
  /\ UNCHANGED <<translation, config_file, server_params, config_loaded, conn, exit_stack, op>>

\* lines 709-716 with call_tool's two tests: the first connected server
\* that lists list_files (or list_directory) is called; a listing that
\* failed returned [].
PostFallbackListed(p, ok) ==
  /\ pc[p] = "pf_list"
  /\ LET f == loc[p].prompt
         srv == f.connected[f.j]
         w == Reply(p, ok)
         found == ok /\ \E i \in 1..Len(Catalog(srv)) :
                          Catalog(srv)[i].name \in {list_files, list_directory}
         args == [x \in {directory} |-> f.tool_calls[f.k].input[directory]]
     IN
     IF ~found
       THEN PostFallbackResume(p, [f EXCEPT !.j = @ + 1], w)
     ELSE IF sessions = EmptyMap \/ srv \notin Keys(sessions)
       THEN PostFallbackResume(p, fallback_record(f, srv, RetNone), w)
     ELSE StartCall(p, f, w, srv, args)
  /\ UNCHANGED <<translation, config_file, server_params, config_loaded, conn, exit_stack, op>>

\* ------------------------------------------- call_tool inside a prompt
\* the tool name call_tool was given
CallName(p) ==
  IF loc[p].prompt.stage = "fallback" THEN list_files
  ELSE loc[p].prompt.tool_calls[loc[p].prompt.k].name

\* (mutant) a call that returned None ends the loop: what there is so far
\* is returned
AfterCall_abort(p, f, w, r) ==
  IF r = RetNone THEN FinishPrompt(p, f, w, post_result(f))
  ELSE IF op[p].name = "send_prompt" THEN SendPromptResume(p, sp_record(f, r), w)
  ELSE IF f.stage = "fallback"
    THEN PostFallbackResume(p, fallback_record(f, loc[p].cur, r), w)
  ELSE PostPromptResume(p, post_record(f, r), w)

\* call_tool returned r to the loop that awaited it.
AfterCall(p, f, w, r) ==
  IF op[p].name = "send_prompt" THEN SendPromptResume(p, sp_record(f, r), w)
  ELSE IF f.stage = "fallback"
    THEN PostFallbackResume(p, fallback_record(f, loc[p].cur, r), w)
  ELSE PostPromptResume(p, post_record(f, r), w)

\* lines 363-390 of src/mcp-client.py, as in CallListed.
PromptCallListed(p, ok) ==
  /\ pc[p] = "p_t_list"
  /\ LET f == loc[p].prompt
         n == loc[p].cur
         tools == Catalog(n)
         i == select_tool(tools, CallName(p))
         miss == missing_args(tools[i], loc[p].arguments)
         w == Reply(p, ok)
     IN
     IF ~ok \/ i = 0 THEN AfterCall(p, f, w, RetNone)
     ELSE IF miss # << >> THEN AfterCall(p, f, w, RetNone)
     ELSE IF n \notin Keys(sessions) THEN AfterCall(p, f, w, RetNone)
     ELSE /\ wire' = [wire EXCEPT ![p] =
               Append(w, Req(n, sessions[n], "call_tool", tools[i].name,
                             loc[p].arguments))]
          /\ loc' = [loc EXCEPT ![p].selected = tools[i]]
          /\ Goto(p, "p_t_call")       \* await sessions[server_name].call_tool()
  /\ UNCHANGED <<translation, config_file, server_params, config_loaded, conn, exit_stack, op>>

\* lines 390-401, as in CallReturned.
PromptCallReturned(p, ok) ==
  /\ pc[p] = "p_t_call"
  /\ AfterCall(p, loc[p].prompt, Reply(p, ok), call_result(Reply(p, ok), ok))
  /\ UNCHANGED <<translation, config_file, server_params, config_loaded, conn, exit_stack, op>>

\* The session manager with prompts: one task sends prompts, through
\* send_prompt or through POST /prompt, while the others connect and
\* disconnect.
NextPrompt ==
  \/ Next
  \/ \E p \in Readers, message \in Prompts, key \in BOOLEAN, ctx \in Contexts :
       SendPromptStart(p, message, key, ctx)
  \/ \E p \in Readers, ok \in BOOLEAN : SendPromptListed(p, ok)
  \/ \E p \in Readers, ans \in Answers : SendPromptPooled(p, ans)
  \/ \E p \in Readers, ctx \in Contexts, prompt \in Prompts :
       PostPromptStart(p, ctx, prompt)
  \/ \E p \in Readers, ok \in BOOLEAN : PostPromptListed(p, ok)
  \/ \E p \in Readers, ans \in Answers : PostMinimalAnswered(p, ans)
  \/ \E p \in Readers, ans \in Answers : PostPlainAnswered(p, ans)
  \/ \E p \in Readers, ans \in Answers : PostRealAnswered(p, ans)
  \/ \E p \in Readers, ans \in Answers : PostFallbackAnswered(p, ans)
  \/ \E p \in Readers, ok \in BOOLEAN : PostFallbackListed(p, ok)
  \/ \E p \in Readers, ok \in BOOLEAN : PromptCallListed(p, ok)
  \/ \E p \in Readers, ok \in BOOLEAN : PromptCallReturned(p, ok)

SpecPrompt == Init /\ [][NextPrompt]_vars

\* ================================================================= claims
OpenIn(stack, t) == [kind |-> "transport", id |-> t] \in stack
Open(t) == OpenIn(exit_stack, t)
Connecting(p, n) ==
  /\ op[p].name = "connect"
  /\ op[p].server = n
  /\ pc[p] \in {"c_spawn", "c_session", "c_init", "c_list"}
Starts(p, name) == pc[p] = "idle" /\ pc'[p] # "idle" /\ op'[p].name = name

\* C1: connect_to_server(n) for a configured name that is already in the
\* session map returns True at once, leaves sessions, transports, the active
\* set and the exit stack as they are, and sends nothing (no spawn, no
\* initialize handshake).
C1_ConnectIdempotent ==
  [][\A p \in Tasks, n \in Names :
       (Starts(p, "connect") /\ op'[p].server = n
          /\ n \in server_params /\ n \in Keys(sessions))
       => /\ pc'[p] = "done"
          /\ ret'[p] = RetBool(TRUE)
          /\ wire'[p] = << >>
          /\ UNCHANGED <<conn, exit_stack>>]_vars

\* a second connect has returned True without a request, the first one's
\* session still registered
C1_Witness ==
  \E p \in Tasks :
    /\ pc[p] = "done" /\ op[p].name = "connect" /\ ret[p] = RetBool(TRUE)
    /\ wire[p] = << >>
    /\ op[p].server \in Keys(sessions)
    /\ op[p].server \in active_servers

\* C2: a connect_to_server that has failed leaves nothing of its own behind:
\* the transport it spawned is neither registered in the transport map nor
\* still open.
C2_FailedConnectLeavesNothing ==
  \A p \in Tasks :
    (pc[p] = "done" /\ op[p].name = "connect" /\ ret[p] = RetBool(FALSE)
       /\ loc[p].t # 0)
    => /\ ~Open(loc[p].t)
       /\ ~(op[p].server \in Keys(stdio_transports)
            /\ stdio_transports[op[p].server] = loc[p].t)

\* C3: two connect_to_server calls in flight for the same name never have
\* both spawned a transport.
C3_OneSpawnPerName ==
  \A p, q \in Tasks :
    (p # q /\ \E n \in Names : Connecting(p, n) /\ Connecting(q, n))
    => ~(loc[p].t # 0 /\ loc[q].t # 0)

\* C4: whenever a disconnect removes a name from the session map, the
\* transport registered for that name has been released (is no longer
\* open) by the time the name is gone.
C4_ReleaseBeforeRemove ==
  [][\A n \in Names :
       (n \in Keys(sessions) /\ n \notin Keys(sessions')
          /\ n \in Keys(stdio_transports))
       => ~OpenIn(exit_stack', stdio_transports[n])]_vars

\* C5: disconnect(n) for a name that is not in the session map returns False
\* and leaves sessions, transports and the active set as they are.
C5_DisconnectNotConnected ==
  [][\A p \in Tasks, n \in Names :
       (Starts(p, "disconnect") /\ op'[p].server = n /\ n \notin Keys(sessions))
       => /\ pc'[p] = "done"
          /\ ret'[p] = RetBool(FALSE)
          /\ UNCHANGED conn]_vars

\* a disconnect of a configured name has returned False while no session
\* had been registered since startup
C5_Witness ==
  \E p \in Tasks :
    /\ pc[p] = "done" /\ op[p].name = "disconnect" /\ ret[p] = RetBool(FALSE)
    /\ op[p].server \in server_params
    /\ sessions_entries = << >>

\* C6: disconnect() without a name leaves every server that was in the
\* session map absent from the session map, the transport map and the
\* active set.
C6_DisconnectAllRemovesAll ==
  [][\A p \in Tasks :
       (Starts(p, "disconnect") /\ op'[p].server = None)
       => \A n \in Keys(sessions) :
            /\ n \notin Keys(sessions')
            /\ n \notin Keys(stdio_transports')
            /\ n \notin active_servers']_vars

\* ------------------------------------------------ listing and calling
Range(f) == {f[i] : i \in DOMAIN f}
OfKind(w, kind) == SelectSeq(w, LAMBDA r : r.kind = kind)
RECURSIVE ToolsOf(_)
ToolsOf(reqs) ==
  IF reqs = << >> THEN << >> ELSE Catalog(Head(reqs).srv) \o ToolsOf(Tail(reqs))
RECURSIVE ServersOf(_)
ServersOf(reqs) ==
  IF reqs = << >> THEN << >> ELSE << Head(reqs).srv >> \o ServersOf(Tail(reqs))

\* what the servers answered a listing with, against what it returned
ListedExactly(p) ==
  /\ ret[p] = RetList(ToolsOf(SelectSeq(wire[p], LAMBDA r : r.st = "ok")))
  /\ loc[p].errors = ServersOf(SelectSeq(wire[p], LAMBDA r : r.st = "fail"))

\* C7: list_tools() over all connected servers never fails as a whole: it
\* returns exactly the tools of the servers whose listing succeeded, and
\* reports a failure for each server whose listing failed.
C7_ListToolsPartialSuccess ==
  \A p \in Tasks :
    (op[p].name = "list_tools" /\ op[p].server = None
       /\ pc[p] \in {"done", "raised"})
    => pc[p] = "done" /\ ListedExactly(p)

\* Two names are equal ignoring case.
CasePairs == { {"r", "R"}, {"f", "F"}, {"w", "W"} }
SameIgnoringCase(x, y) ==
  /\ Len(x) = Len(y)
  /\ \A i \in 1..Len(x) : x[i] = y[i] \/ {x[i], y[i]} \in CasePairs
Matches(srv, tn) ==
  {i \in 1..Len(Catalog(srv)) : SameIgnoringCase(Catalog(srv)[i].name, tn)}
FirstMatch(srv, tn) ==
  Catalog(srv)[CHOOSE i \in Matches(srv, tn) : \A j \in Matches(srv, tn) : i <= j]
\* the required properties of the resolved tool that the arguments lack
MissingSet(srv, tn, args) ==
  IF Matches(srv, tn) = {} THEN {}
  ELSE LET t == FirstMatch(srv, tn) IN
       IF t.hasSchema /\ t.hasRequired
         THEN {a \in Range(t.required) : a \notin DOMAIN args}
         ELSE {}
Invocations(p) == OfKind(wire[p], "call_tool")
\* the step of task p that follows the catalog's arrival
Resolves(p) ==
  /\ op[p].name = "call_tool" /\ pc[p] = "t_list" /\ pc'[p] # "t_list"
  /\ wire'[p][1].st = "ok"

\* C8 as stated: once the catalog is listed, the call is forwarded iff some
\* catalog tool's name equals the requested name ignoring case; when none
\* does, call_tool returns None and no invocation is sent.
C8_ForwardedIffNameMatches ==
  \A p \in Tasks :
    (op[p].name = "call_tool" /\ pc[p] = "done" /\ wire[p] # << >>
       /\ wire[p][1].st = "ok")
    => /\ (Invocations(p) # << >>) <=> (Matches(op[p].server, op[p].tool) # {})
       /\ Matches(op[p].server, op[p].tool) = {}
            => ret[p] = RetNone /\ Invocations(p) = << >>

\* C8 amended: once the catalog is listed, the call is forwarded iff some
\* catalog tool's name equals the requested name ignoring case, the first
\* such tool's required properties are all among the arguments and the
\* server is still in the session map; it is forwarded under the matched
\* tool; when no tool matches, call_tool returns None and no invocation is
\* sent.
C8_ForwardedIffResolved ==
  [][\A p \in Tasks :
       Resolves(p) =>
         LET n == op[p].server
             tn == op[p].tool
             sent == Invocations(p)'
         IN
         /\ (sent # << >>) <=>
              /\ Matches(n, tn) # {}
              /\ MissingSet(n, tn, loc[p].arguments) = {}
              /\ n \in Keys(sessions)
         /\ sent # << >> =>
              /\ pc'[p] = "t_call"
              /\ Len(sent) = 1
              /\ SameIgnoringCase(sent[1].tool, tn)
              /\ sent[1].srv = n
         /\ Matches(n, tn) = {} =>
              pc'[p] = "done" /\ ret'[p] = RetNone /\ sent = << >>]_vars

\* a request spelled in another case than the catalog's tool is in flight
C8_Witness ==
  \E p \in Tasks :
    /\ pc[p] = "t_call"
    /\ Invocations(p) # << >>
    /\ Invocations(p)[1].tool # op[p].tool
    /\ SameIgnoringCase(Invocations(p)[1].tool, op[p].tool)

C10_NoRetry ==
  \A p \in Tasks :
    op[p].name = "call_tool" =>
      /\ Len(Invocations(p)) <= 1
      /\ \A i \in 1..Len(wire[p]) :
           (wire[p][i].kind = "call_tool" /\ wire[p][i].st = "fail")
           => i = Len(wire[p]) /\ pc[p] = "done" /\ ret[p] = RetNone

\* a forwarded invocation has failed downstream
C10_Witness ==
  \E p \in Tasks :
    /\ pc[p] = "done" /\ op[p].name = "call_tool"
    /\ Invocations(p) # << >>
    /\ Invocations(p)[1].st = "fail"

\* ------------------------------------------------------------- prompts
Prompting(p) == op[p].name \in {"send_prompt", "post_prompt"}
Frame(p) == loc[p].prompt
\* the prompt of task p has returned a dict
Returned(p) == Prompting(p) /\ pc[p] = "done" /\ ret[p] = RetDict
Last(q) == q[Len(q)]
\* task p takes the step that ends a forwarded invocation
InvocationEnds(p) ==
  /\ Prompting(p) /\ pc[p] = "p_t_call" /\ wire'[p] # wire[p]

\* C11: when the invocation forwarded for a tool-use block fails downstream,
\* the record made for that block carries an error, not a result.
C11_FailureRecordedAsError ==
  [][\A p \in Tasks :
       (InvocationEnds(p) /\ wire'[p][Len(wire[p])].st = "fail")
       => LET rs == loc'[p].prompt.tool_results
              n == Len(loc[p].prompt.tool_results) + 1
          IN Len(rs) >= n /\ rs[n].has = "error"]_vars

\* the tool-use blocks of a response, and its text
ToolUses(content) == SelectSeq(content, LAMBDA b : b.type = "tool_use")
RECURSIVE Concat(_)
Concat(texts) ==
  IF texts = << >> THEN << >> ELSE Head(texts).text \o Concat(Tail(texts))
TextOf(content) == Concat(SelectSeq(content, LAMBDA b : b.type = "text"))
\* the text a returned dict carries: its "response", or its text blocks
ResultText(p) ==
  IF op[p].name = "post_prompt" THEN Frame(p).result.response
  ELSE TextOf(Frame(p).result.content)
\* the prompt of task p has returned the dict made from a response
Answered(p) == Returned(p) /\ Frame(p).result.id = "response"
Routable(p, name) == name \in Keys(Frame(p).server_tool_map)

\* C12: a returned prompt carries the response text unchanged and, for every
\* tool-use block whose name is not in the routing table, a record with an
\* error; when no block is routable no tool invocation has been sent.
C12_UnroutableGetsRoutingError ==
  \A p \in Tasks :
    Answered(p) =>
      LET f == Frame(p)
          uses == ToolUses(f.content)
      IN
      /\ ResultText(p) = TextOf(f.content)
      /\ \A i \in 1..Len(uses) :
           ~Routable(p, uses[i].name) =>
             \E j \in 1..Len(f.result.tools) :
               /\ f.result.tools[j].name = uses[i].name
               /\ f.result.tools[j].has = "error"
      /\ (\A i \in 1..Len(uses) : ~Routable(p, uses[i].name))
           => Invocations(p) = << >>

\* C13: the dict returned for a response has exactly one record per tool-use
\* block, in order, each with a result or an error.
C13_OneRecordPerToolUse ==
  \A p \in Tasks :
    Answered(p) =>
      LET uses == ToolUses(Frame(p).content)
          recs == Frame(p).result.tools
      IN
      /\ Len(recs) = Len(uses)
      /\ \A j \in 1..Len(recs) :
           recs[j].name = uses[j].name /\ recs[j].has \in {"result", "error"}

\* the prompt of task p has ended after its request proper was answered
\* (the request of line 520 of src/mcp_ui.py, of line 546 of
\* src/mcp-client.py)
Dispatched(p) ==
  /\ Prompting(p) /\ pc[p] \in {"done", "raised"}
  /\ Frame(p).stage \in {"real", "pool"}
  /\ Frame(p).api # << >> /\ Last(Frame(p).api).st = "ok"

\* C14: a prompt whose request was answered returns the response text and a
\* record for every tool-use block the routing table knows, in order,
\* whatever the outcome of the calls before it: a failed call neither ends
\* the prompt nor loses a record or the text.
C14_FailureDoesNotAbort ==
  \A p \in Tasks :
    /\ Prompting(p) => pc[p] # "raised"
    /\ Dispatched(p) =>
         LET f == Frame(p)
             routed == SelectSeq(f.tool_calls, LAMBDA c : Routable(p, c.name))
         IN
         /\ Answered(p) /\ ~f.result.error
         /\ NamesOf(f.result.tools) = NamesOf(routed)
         /\ ResultText(p) = TextOf(f.content)

\* the first of two calls failed downstream, the second was still forwarded
\* and its result recorded after the first one's record
C14_Witness ==
  \E p \in Tasks :
    /\ Dispatched(p)
    /\ Len(Frame(p).result.tools) = 2
    /\ Frame(p).result.tools[1].val.text = "None"
    /\ Frame(p).result.tools[2].val.text = "content"
    /\ Len(Invocations(p)) = 2
    /\ Invocations(p)[1].st = "fail"
    /\ Invocations(p)[2].st = "ok"

\* server srv lists a tool of exactly this name
Offers(srv, name) == \E i \in 1..Len(Catalog(srv)) : Catalog(srv)[i].name = name
\* a record that carries what an invocation returned
FromServer(r) == r.val.text \in {"content", "CallToolResult"}

\* C15: every tool invocation a prompt sends is for one of the response's
\* tool-use blocks and goes to a server that lists a tool of the block's
\* name, the one the routing table names for it; no block causes more than
\* one invocation, and a result in a record comes from the record's server.
C15_RoutedToOwner ==
  \A p \in Tasks :
    Prompting(p) =>
      LET f == Frame(p)
          inv == Invocations(p)
      IN
      /\ Len(inv) <= Len(f.tool_calls)
      /\ \A i \in 1..Len(inv) :
           \E k \in 1..Len(f.tool_calls) :
             LET c == f.tool_calls[k] IN
             /\ Offers(inv[i].srv, c.name)
             /\ SameIgnoringCase(inv[i].tool, c.name)
             /\ f.stage # "fallback" =>
                  Routable(p, c.name) /\ inv[i].srv = f.server_tool_map[c.name]
      /\ \A j \in 1..Len(f.tool_results) :
           FromServer(f.tool_results[j]) =>
             /\ f.tool_results[j].val.srv = f.tool_results[j].server
             /\ Offers(f.tool_results[j].server, f.tool_results[j].name)

\* with "a" and "b" both listed for the prompt, the one tool-use block names
\* a tool of "a" alone: the only invocation went to "a" and its result is in
\* the record
C15_Witness ==
  \E p \in Tasks :
    /\ Answered(p) /\ Frame(p).stage = "real"
    /\ {t.server : t \in Range(Frame(p).tools)} = {"a", "b"}
    /\ NamesOf(ToolUses(Frame(p).content)) = << <<"w">> >>
    /\ ~Offers("b", <<"w">>)
    /\ Len(Invocations(p)) = 1
    /\ Invocations(p)[1].srv = "a" /\ Invocations(p)[1].st = "ok"
    /\ Len(Frame(p).result.tools) = 1
    /\ Frame(p).result.tools[1].val.srv = "a"
    /\ Frame(p).result.tools[1].has = "result"

\* the prompt of task p got the tools listing of srv answered
ListedInPrompt(p, srv) ==
  \E i \in 1..Len(wire[p]) :
    /\ wire[p][i].kind = "list_tools" /\ wire[p][i].srv = srv
    /\ wire[p][i].st = "ok"

\* C16: every entry of a prompt's routing table names a server that the
\* prompt selects (one of the request's names when it gives any), that was
\* in the session map when this prompt asked it for its tools, and that
\* lists the tool; so nothing comes from an earlier prompt or from a server
\* that is not connected.
C16_TableFreshSelectedConnected ==
  \A p \in Tasks :
    Prompting(p) =>
      LET f == Frame(p) IN
      \A n \in Keys(f.server_tool_map) :
        LET srv == f.server_tool_map[n] IN
        /\ srv \in Range(f.server_contexts)
        /\ f.request.list # << >> => srv \in Range(f.request.list)
        /\ ListedInPrompt(p, srv)
        /\ Offers(srv, n)

\* the request names "a" and "b"; "b" was not connected when its turn came
\* and was not asked; the table holds the tools of "a" only
C16_Witness ==
  \E p \in Tasks :
    /\ Prompting(p) /\ Frame(p).api # << >>
    /\ Range(Frame(p).request.list) = {"a", "b"}
    /\ Keys(Frame(p).server_tool_map) # {}
    /\ Range(Frame(p).server_tool_map) = {"a"}
    /\ \A i \in 1..Len(wire[p]) : wire[p][i].srv # "b"

\* C17: every tool collected for a prompt stays addressable: the routing
\* table leads from the tool's name to the server it was listed by, also
\* when another selected server lists a tool of the same name.
C17_SameNameBothAddressable ==
  \A p \in Tasks :
    Prompting(p) =>
      \A i \in 1..Len(Frame(p).tools) :
        LET t == Frame(p).tools[i] IN
        /\ Routable(p, t.name)
        /\ Frame(p).server_tool_map[t.name] = t.server

\* C18: a prompt makes at most one request to the model API.
C18_OneApiRequest ==
  \A p \in Tasks : Prompting(p) => Len(Frame(p).api) <= 1

\* a request of the prompt of task p to the model API has failed
ApiFailed(p) == \E i \in 1..Len(Frame(p).api) : Frame(p).api[i].st = "fail"
\* a returned dict that says it is an error
MarkedError(res) == res.error \/ res.id = "error"
CarriesUpstream(res) ==
  res.message = "api error" \/ "api error" \in Range(res.response)

\* C19: a prompt ends by returning a dict, never None and never an
\* exception; when a request to the model API has failed, the dict is marked
\* as an error, carries the upstream message, and no tool call was made.
C19_StructuredResultFatalError ==
  \A p \in Tasks :
    (Prompting(p) /\ pc[p] \in {"done", "raised"}) =>
      /\ pc[p] = "done" /\ ret[p] = RetDict
      /\ ApiFailed(p) =>
           /\ MarkedError(Frame(p).result)
           /\ CarriesUpstream(Frame(p).result)
           /\ Frame(p).result.tools = << >>
           /\ \A i \in 1..Len(wire[p]) : wire[p][i].kind # "call_tool"

\* ------------------------------------------------------------ load_config
\* the names whose entry in the document has enabled absent or true
EnabledNames(cfg) ==
  {cfg.servers[i].name :
     i \in {j \in 1..Len(cfg.servers) : cfg.servers[j].enabled \in {"absent", "true"}}}

\* C20: after a load_config that returned True, the registry holds exactly
\* the names whose entry has enabled absent or true; an entry with enabled
\* false is not in it.
C20_RegistryIffEnabled ==
  config_loaded = "ok" =>
    /\ server_params = EnabledNames(config_file)
    /\ \A i \in 1..Len(config_file.servers) :
         config_file.servers[i].enabled = "false"
           => config_file.servers[i].name \notin server_params

\* a document with an enabled and a disabled entry has been loaded
C20_Witness ==
  /\ config_loaded = "ok"
  /\ \E i, j \in 1..Len(config_file.servers) :
       /\ config_file.servers[i].enabled = "false"
       /\ config_file.servers[i].name \notin server_params
       /\ config_file.servers[j].enabled = "true"
       /\ config_file.servers[j].name \in server_params

\* --------------------------------------------------- load_config, inputs
\* Every document of at most MaxEntries entries over the two server names:
\* each entry with enabled absent, true or false, with or without command,
\* with or without args; and the file missing or not parsable as JSON.
MaxEntries == 2
ConfigEntries ==
  { Entry(n, en, c, a) : n \in Names, en \in {"absent", "true", "false"},
                         c \in BOOLEAN, a \in BOOLEAN }
ConfigDocs ==
  { [file |-> "ok", servers |-> s] :
      s \in { q \in UNION { [1..k -> ConfigEntries] : k \in 0..MaxEntries } :
                \A i, j \in 1..Len(q) : i # j => q[i].name # q[j].name } }
  \cup { [file |-> f, servers |-> << >>] : f \in {"missing", "malformed"} }

\* the client after construction, for any document behind config_file
InitConfig ==
  /\ config_file \in ConfigDocs
  /\ server_params = {}
  /\ config_loaded = "no"
  /\ sessions = EmptyMap
  /\ sessions_entries = << >>
  /\ stdio_transports = EmptyMap
  /\ active_servers = {}
  /\ exit_stack = {}
  /\ pc = [p \in Tasks |-> "idle"]
  /\ op = [p \in Tasks |-> NoOp]
  /\ loc = [p \in Tasks |-> NoLoc]
  /\ ret = [p \in Tasks |-> Pending]
  /\ wire = [p \in Tasks |-> << >>]
  /\ descriptor = NoDescriptor
  /\ formatted_tools = << >>

NextConfig == LoadConfig

SpecConfig == InitConfig /\ [][NextConfig]_vars

Enabled(e) == e.enabled \in {"absent", "true"}

\* C21 (as stated): load_config returns False exactly when the file is
\* missing, is malformed, or has an enabled entry without a command field.
C21_FailsIffMissingMalformedNoCommand ==
  config_loaded # "no" =>
    (config_loaded = "failed" <=>
       \/ config_file.file \in {"missing", "malformed"}
       \/ \E i \in 1..Len(config_file.servers) :
            Enabled(config_file.servers[i]) /\ ~config_file.servers[i].command)

\* C21 (amended): load_config returns False exactly when the file is
\* missing, is malformed, or has an enabled entry without a command field
\* or without an args field; it returns True otherwise.
C21_FailsIffMissingMalformedNoCommandOrArgs ==
  config_loaded # "no" =>
    (config_loaded = "failed" <=>
       \/ config_file.file \in {"missing", "malformed"}
       \/ \E i \in 1..Len(config_file.servers) :
            /\ Enabled(config_file.servers[i])
            /\ ~config_file.servers[i].command \/ ~config_file.servers[i].args)

\* a parsable document whose enabled entry has a command and no args was
\* loaded, and the load reported failure
C21_Witness ==
  /\ config_loaded = "failed"
  /\ config_file.file = "ok"
  /\ \A i \in 1..Len(config_file.servers) : config_file.servers[i].command
  /\ \E i \in 1..Len(config_file.servers) :
       Enabled(config_file.servers[i]) /\ ~config_file.servers[i].args

\* ---------------------------------------------------------- the registry
\* C22: once load_config has run, the registry is what that load made of
\* the document, in every state any sequence of connect, disconnect,
\* list_tools, call_tool and prompt steps leads to: no operation adds,
\* removes or replaces an entry.
C22_RegistryNeverMutated ==
  config_loaded # "no" =>
    server_params = load_config(config_file, {}).params

\* both servers are registered; a prompt has listed the tools of "a" and
\* called one of them, and "a" has been disconnected since
C22_Witness ==
  /\ server_params = {"a", "b"}
  /\ "a" \notin Keys(sessions)
  /\ \E p \in Tasks :
       /\ Dispatched(p)
       /\ Invocations(p) # << >>
       /\ Invocations(p)[1].srv = "a"
       /\ ListedInPrompt(p, "a")

\* ====================================================== schema translation
\* Tool names the translations know; "w" stands for list_files (see above).
read_file == <<"r", "f">>
write_file == <<"w", "f">>

\* Declared input schemas, as dicts: the keys a schema has are the fields of
\* the record.  The first is a schema with one required string property; the
\* second is the schema the translations write for list_files; the third
\* and the fourth have no "type" (the fourth has a title and nothing else),
\* the fifth has nothing but the type.
InputSchemas ==
  { [type |-> "object", properties |-> [path |-> [type |-> "string"]],
     required |-> <<"path">>],
    [type |-> "object",
     properties |-> [directory |-> [description |-> "The directory to list files in",
                                    type |-> "string"]],
     required |-> <<"directory">>],
    [properties |-> [path |-> [type |-> "string"]]],
    [title |-> "t"],
    [type |-> "object"] }

ToolDescriptors ==
  { [name |-> n, description |-> "d", inputSchema |-> s] :
      n \in {list_files, <<"W">>, read_file, write_file, <<"x">>},
      s \in InputSchemas }

\* the properties written for a tool of this name
simple_properties(tool_name) ==
  IF tool_name = list_files \/ tool_name = list_directory
    THEN [directory |-> [description |-> "The directory to list files in",
                         type |-> "string"]]
  ELSE IF tool_name = read_file
    THEN [file_path |-> [description |-> "Path to the file to read",
                         type |-> "string"]]
  ELSE IF tool_name = write_file
    THEN [file_path |-> [description |-> "Path to the file to write",
                         type |-> "string"],
          content |-> [description |-> "Content to write to the file",
                       type |-> "string"]]
  ELSE [args |-> [description |-> "Arguments for the tool as a JSON string",
                  type |-> "string"]]

\* the required list written for a tool of this name
required_fields(tool_name) ==
  IF tool_name = list_files \/ tool_name = list_directory THEN <<"directory">>
  ELSE IF tool_name = read_file THEN <<"file_path">>
  ELSE IF tool_name = write_file THEN <<"file_path", "content">>
  ELSE << >>

\* (mutant) the custom object carries a type of its own
custom_tool_typed(tool, key) ==
  [type |-> "custom",
   custom |-> [type |-> "function",
               name |-> tool.name, description |-> tool.description,
               parameters |-> [type |-> "object",
                               properties |-> simple_properties(key),
                               required |-> required_fields(key)]]]

\* the dict that stands for one tool: the custom object wraps the tool
custom_tool(tool, key) ==
  [type |-> "custom",
   custom |-> [name |-> tool.name, description |-> tool.description,
               parameters |-> [type |-> "object",
                               properties |-> simple_properties(key),
                               required |-> required_fields(key)]]]

\* AnthropicClient._format_tool: the branches compare tool_name.lower()
_format_tool(tool) == custom_tool(tool, lower(tool.name))

\* the tool_dict of the POST /prompt handler: the branches compare tool_name
post_tool_dict(tool) == custom_tool(tool, tool.name)

\* the tool_dict of MCPConfigClient.send_prompt: schema_params and
\* simple_properties are computed and left out of the dict
tool_dict(tool) ==
  [type |-> "custom",
   custom |-> [name |-> tool.name, description |-> tool.description]]

\* One translation of the descriptor: which code made it, the descriptor it
\* was given, and what it returned.
MaxFormats == 2
Format(by, out) ==
  /\ Len(formatted_tools) < MaxFormats
  /\ formatted_tools' =
       Append(formatted_tools, [by |-> by, of |-> descriptor, out |-> out])
  /\ UNCHANGED <<descriptor, config_file, server_params, config_loaded, conn,
                 exit_stack, pc, op, loc, ret, wire>>

\* (mutant) the name of the descriptor handed in is lower-cased in place
FormatTool_inplace ==
  /\ Len(formatted_tools) < MaxFormats
  /\ formatted_tools' =
       Append(formatted_tools, [by |-> "_format_tool", of |-> descriptor,
                                out |-> _format_tool(descriptor)])
  /\ descriptor' = [descriptor EXCEPT !.name = lower(@)]
  /\ UNCHANGED <<config_file, server_params, config_loaded, conn,
                 exit_stack, pc, op, loc, ret, wire>>

FormatTool == Format("_format_tool", _format_tool(descriptor))
ClientToolDict == Format("send_prompt", tool_dict(descriptor))
PostToolDict == Format("post_prompt", post_tool_dict(descriptor))

\* the client after construction, and a descriptor to translate
InitTranslate ==
  /\ config_file \in Configs
  /\ server_params = {}
  /\ config_loaded = "no"
  /\ sessions = EmptyMap
  /\ sessions_entries = << >>
  /\ stdio_transports = EmptyMap
  /\ active_servers = {}
  /\ exit_stack = {}
  /\ pc = [p \in Tasks |-> "idle"]
  /\ op = [p \in Tasks |-> NoOp]
  /\ loc = [p \in Tasks |-> NoLoc]
  /\ ret = [p \in Tasks |-> Pending]
  /\ wire = [p \in Tasks |-> << >>]
  /\ descriptor \in ToolDescriptors
  /\ formatted_tools = << >>

NextTranslate ==
  \/ FormatTool
  \/ ClientToolDict
  \/ PostToolDict

SpecTranslate == InitTranslate /\ [][NextTranslate]_vars

\* ------------------------------------------------ claims on translation
Has(d, key) == key \in DOMAIN d
HasBlock(e) == Has(e.out, "custom") /\ Has(e.out.custom, "parameters")
BlockOf(e) == e.out.custom.parameters
Translations == {formatted_tools[i] : i \in 1..Len(formatted_tools)}

\* C23: the parameter block made for a tool has the properties and the
\* required list of the tool's declared input schema, whatever the tool is
\* called.
C23_BlockFollowsDeclaredSchema ==
  \A e \in Translations :
    (Has(e.of.inputSchema, "properties") /\ Has(e.of.inputSchema, "required"))
      => /\ HasBlock(e)
         /\ BlockOf(e).properties = e.of.inputSchema.properties
         /\ BlockOf(e).required = e.of.inputSchema.required

\* C24: the object that wraps a translated tool (its "custom" object) has
\* no "type" key of its own, and the parameter block, where the translation
\* has one, is marked with the type "object" and nothing else.
C24_NoTypeKeyInWrapper ==
  \A e \in Translations :
    /\ Has(e.out, "custom")
    /\ ~Has(e.out.custom, "type")
    /\ HasBlock(e) => /\ Has(BlockOf(e), "type")
                      /\ BlockOf(e).type = "object"

\* the tool with required ["path"] and a string property path has been
\* translated by _format_tool and by the POST /prompt handler
C24_Witness ==
  /\ descriptor.inputSchema =
       [type |-> "object", properties |-> [path |-> [type |-> "string"]],
        required |-> <<"path">>]
  /\ {e.by : e \in Translations} = {"_format_tool", "post_prompt"}
  /\ \A e \in Translations : HasBlock(e)

\* C25: no translation comes out of a descriptor whose declared schema has
\* no "type": the translation of such a tool fails.
C25_UntypedSchemaNotTranslated ==
  \A e \in Translations : Has(e.of.inputSchema, "type")

Translatable(srv, name) ==
  \E i \in 1..Len(Catalog(srv)) :
    Catalog(srv)[i].name = name /\ Catalog(srv)[i].hasSchema
\* the prompt of task p has collected its tools and waits for the model
Collected(p) == Prompting(p) /\ pc[p] \in {"pp_real", "sp_pool"}
\* the tools of the servers that answered the prompt's listing are all
\* collected and routed, but for the ones without a declared schema
OthersKept(p) ==
  \A srv \in Names : \A i \in 1..Len(Catalog(srv)) :
    (ListedInPrompt(p, srv) /\ Catalog(srv)[i].hasSchema)
      => /\ \E k \in 1..Len(Frame(p).tools) :
              Frame(p).tools[k] = [name |-> Catalog(srv)[i].name, server |-> srv]
         /\ Catalog(srv)[i].name \in Keys(Frame(p).server_tool_map)

\* C27: when the tools of a prompt have been collected, a tool whose schema
\* cannot be translated is not among them, and every other tool of the
\* servers that listed theirs is, and is in the routing table.
C27_OnlyFailingToolSkipped ==
  \A p \in Tasks :
    Collected(p) =>
      /\ \A k \in 1..Len(Frame(p).tools) :
           Translatable(Frame(p).tools[k].server, Frame(p).tools[k].name)
      /\ OthersKept(p)

\* ------------------------------------------------- the request submitted
\* the requests of a prompt that carry the caller's business: all but the
\* one that tries the tool format first (C18)
Submitted(p) ==
  {Frame(p).api[i] : i \in {j \in 1..Len(Frame(p).api) : Frame(p).api[j].kind # "test"}}

\* C28: the user message of every request a prompt submits to the model API
\* is the caller's prompt text, unchanged.
C28_PromptVerbatim ==
  \A p \in Tasks :
    Prompting(p) => \A r \in Submitted(p) : r.user = Frame(p).prompt

\* C29: the tools a request offers are the tools the prompt collected, in
\* order, and each of them is listed by a server the prompt selected and
\* asked; so a prompt that resolved no tool offers none.
C29_OfferedToolsAreListedTools ==
  \A p \in Tasks :
    Prompting(p) =>
      \A r \in Submitted(p) :
        /\ r.tools = NamesOf(Frame(p).tools)
        /\ \A i \in 1..Len(r.tools) :
             \E srv \in Range(Frame(p).server_contexts) :
               ListedInPrompt(p, srv) /\ Offers(srv, r.tools[i])

\* =================================================== prompts and resources
\* What the servers have: "a" supports both capabilities, "b" neither.
Supports(srv, cap) == srv = "a"
Listing(srv, cap) ==
  IF ~Supports(srv, cap) THEN << >>
  ELSE IF cap = "prompts" THEN <<"greet">> ELSE <<"file:///x">>

\* an exception of the named class
RaisedAs(e) == [Raised EXCEPT !.val.kind = e]

\* list_prompts() and list_resources() of src/mcp-client.py take no server:
\* with no session they return [] (lines 739-741, 802-804); with one, the
\* subscript self.sessions[self.current_server_name] reads an attribute that
\* nothing in src/ assigns, the AttributeError is caught (lines 756, 815)
\* and they return [] before any request is sent.
ListPrompts(p) ==
  /\ Begin(p, [NoOp EXCEPT !.name = "list_prompts"])
  /\ Finish(p, RetList(<< >>))
  /\ UNCHANGED <<translation, config_file, server_params, config_loaded, conn,
                 exit_stack, loc, wire>>

ListResources(p) ==
  /\ Begin(p, [NoOp EXCEPT !.name = "list_resources"])
  /\ Finish(p, RetList(<< >>))
  /\ UNCHANGED <<translation, config_file, server_params, config_loaded, conn,
                 exit_stack, loc, wire>>

\* GET /prompts and GET /resources of src/mcp_ui.py: 400 when nothing is
\* connected or the name given is not; otherwise the client's method is
\* called with the name, one positional argument more than it takes, and
\* the TypeError leaves the handler.
get_listing(n, connected) ==
  IF connected = {} THEN RaisedAs("HTTPException 400")
  ELSE IF n # None /\ n \notin connected THEN RaisedAs("HTTPException 400")
  ELSE RaisedAs("TypeError")

GetPrompts(p, n) ==
  /\ Begin(p, [NoOp EXCEPT !.name = "get_prompts", !.server = n])
  /\ Finish(p, get_listing(n, active_servers))
  /\ UNCHANGED <<translation, config_file, server_params, config_loaded, conn,
                 exit_stack, loc, wire>>

GetResources(p, n) ==
  /\ Begin(p, [NoOp EXCEPT !.name = "get_resources", !.server = n])
  /\ Finish(p, get_listing(n, active_servers))
  /\ UNCHANGED <<translation, config_file, server_params, config_loaded, conn,
                 exit_stack, loc, wire>>

NextListing ==
  \/ Next
  \/ \E p \in Readers : ListPrompts(p)
  \/ \E p \in Readers : ListResources(p)
  \/ \E p \in Readers, n \in Names \cup {None} : GetPrompts(p, n)
  \/ \E p \in Readers, n \in Names \cup {None} : GetResources(p, n)

SpecListing == Init /\ [][NextListing]_vars

\* the capability an operation lists
CapOf(name) ==
  IF name \in {"list_prompts", "get_prompts"} THEN "prompts" ELSE "resources"
\* task p takes the step that runs one of the four listings while srv is
\* the one connected server, and the server it names, if any, is srv
ListsOn(p, srv) ==
  /\ pc[p] = "idle"
  /\ op'[p].name \in {"list_prompts", "list_resources", "get_prompts", "get_resources"}
  /\ op'[p].server \in {None, srv}
  /\ Keys(sessions) = {srv} /\ active_servers = {srv}

\* C30: a listing of prompts or resources on the connected server returns
\* what that server has when it supports the capability, and the empty list
\* when it does not; it does not raise.
C30_ListingEmptyOrServers ==
  [][\A p \in Tasks, srv \in Names :
       ListsOn(p, srv)
         => ret'[p] = RetList(Listing(srv, CapOf(op'[p].name)))]_vars

\* ------------------------------------------------------ the response scan
\* the prompt of task p scanned its response for tool calls (the request
\* proper of either send_prompt, or the handler's one-tool request)
Scanned(p) == Answered(p) /\ Frame(p).stage \in {"real", "pool", "fallback"}

C32_ActiveSetIsSessionKeys == active_servers = Keys(sessions)


\* C33: disconnect(n) for a name that is in the session map returns True
\* and leaves n absent from the session map, the transport map and the
\* active set; and every name in the session map is in the transport map.
C33_DisconnectRemovesTogether ==
  [][/\ Keys(sessions) \subseteq Keys(stdio_transports)
     /\ \A p \in Tasks, n \in Names :
          (Starts(p, "disconnect") /\ op'[p].server = n /\ n \in Keys(sessions))
          => /\ ret'[p] = RetBool(TRUE)
             /\ n \notin Keys(sessions')
             /\ n \notin Keys(stdio_transports')
             /\ n \notin active_servers']_vars


\* ------------------------------------------------ the read-only operations
\* list(self.server_params.keys()): the registry's names in the order the
\* configuration file has them.
registry_keys ==
  LET names == [i \in 1..Len(config_file.servers) |-> config_file.servers[i].name]
  IN SelectSeq(names, LAMBDA n : n \in server_params)

\* list_servers, lines 273-280: no await that suspends.
ListServers(p) ==
  /\ Begin(p, [NoOp EXCEPT !.name = "list_servers"])
  /\ Finish(p, RetList(registry_keys))
  /\ UNCHANGED <<translation, config_file, server_params, config_loaded, conn,
                 exit_stack, loc, wire>>

\* get_connected_servers, lines 282-284
GetConnectedServers(p) ==
  /\ Begin(p, [NoOp EXCEPT !.name = "get_connected_servers"])
  /\ \E l \in Orders(active_servers) : Finish(p, RetList(l))
  /\ UNCHANGED <<translation, config_file, server_params, config_loaded, conn,
                 exit_stack, loc, wire>>

\* The session manager with every operation that lists or calls: one task
\* lists servers and tools, calls tools and sends prompts while the other
\* connects and disconnects.  (send_prompt starts no tool call of its own:
\* with tools in the request call_anthropic raises at line 536, without
\* them no tool-use block has a server.)
NextReads ==
  \/ NextTools
  \/ \E p \in Readers : ListServers(p)
  \/ \E p \in Readers : GetConnectedServers(p)
  \/ \E p \in Readers, message \in Prompts, key \in BOOLEAN, ctx \in Contexts :
       SendPromptStart(p, message, key, ctx)
  \/ \E p \in Readers, ok \in BOOLEAN : SendPromptListed(p, ok)
  \/ \E p \in Readers, ans \in Answers : SendPromptPooled(p, ans)

SpecReads == Init /\ [][NextReads]_vars

ReadOps == {"list_servers", "get_connected_servers", "list_tools", "call_tool",
            "send_prompt"}
\* task p takes a step of one of the reading operations: it starts it,
\* resumes it after an await, or hands its result to the caller
ReadStep(p) ==
  /\ <<pc[p], op[p], loc[p], ret[p], wire[p]>>' # <<pc[p], op[p], loc[p], ret[p], wire[p]>>
  /\ \/ op[p].name \in ReadOps
     \/ op'[p].name \in ReadOps

\* C34: no step of list_servers, get_connected_servers, list_tools,
\* call_tool or send_prompt, whether the operation succeeds or fails,
\* changes the session map, the transport map or the active set.
C34_ReadsLeaveConnections ==
  [][\A p \in Tasks : ReadStep(p) => UNCHANGED conn]_vars

\* a call_tool whose invocation failed at the server has returned None, and
\* its server is still in the session map, the transport map and the active
\* set
C34_Witness ==
  \E p \in Tasks :
    /\ pc[p] = "done" /\ op[p].name = "call_tool" /\ ret[p] = RetNone
    /\ Len(wire[p]) = 2 /\ wire[p][2].kind = "call_tool" /\ wire[p][2].st = "fail"
    /\ op[p].server \in Keys(sessions) \cap Keys(stdio_transports) \cap active_servers


\* C35: connect_to_server(n) for a name that is not in the registry returns
\* False at once: nothing is spawned or sent, and the session map, the
\* transport map, the active set and the exit stack stay as they are.
C35_UnknownServerRefused ==
  [][\A p \in Tasks, n \in Names :
       (Starts(p, "connect") /\ op'[p].server = n /\ n \notin server_params)
       => /\ pc'[p] = "done"
          /\ ret'[p] = RetBool(FALSE)
          /\ wire'[p] = << >>
          /\ UNCHANGED <<conn, exit_stack>>]_vars

\* a connect of a name the loaded registry does not hold has returned False
\* while another server is connected
C35_Witness ==
  \E p \in Tasks :
    /\ pc[p] = "done" /\ op[p].name = "connect" /\ ret[p] = RetBool(FALSE)
    /\ config_loaded = "ok" /\ op[p].server \notin server_params
    /\ wire[p] = << >>
    /\ Keys(sessions) # {} /\ Keys(sessions) = Keys(stdio_transports)


\* task p takes the step that forwards a tool invocation
Forwards(p) ==
  /\ Len(wire'[p]) = Len(wire[p]) + 1
  /\ Last(wire'[p]).kind = "call_tool"

\* C36: a tool invocation is sent on the session the session map holds for
\* its server when it is sent; call_tool and send_prompt do not raise; and a
\* call_tool whose server has left the session map while its catalog was
\* awaited sends no invocation and returns None.
C36_ForwardedOnRegisteredSession ==
  [][\A p \in Tasks :
       /\ Forwards(p) =>
            LET r == Last(wire'[p]) IN
            r.srv \in Keys(sessions) /\ r.sid = sessions[r.srv]
       /\ op[p].name \in {"call_tool", "send_prompt"} => pc'[p] # "raised"
       /\ (op[p].name = "call_tool" /\ pc[p] = "t_list" /\ pc'[p] # "t_list"
             /\ op[p].server \notin Keys(sessions))
          => pc'[p] = "done" /\ ret'[p] = RetNone /\ ~Forwards(p)]_vars

\* a call_tool has returned None with the catalog listed, the tool resolved
\* and no argument missing: its server had been disconnected meanwhile,
\* and the listing is the only request it has sent
C36_Witness ==
  \E p \in Tasks :
    /\ pc[p] = "done" /\ op[p].name = "call_tool" /\ ret[p] = RetNone
    /\ Len(wire[p]) = 1 /\ wire[p][1].st = "ok"
    /\ loc[p].selected # NoTool /\ loc[p].missing = << >>
    /\ op[p].server \notin Keys(sessions)


\* ------------------------------------------------------ dispatch order
\* a call or record x is for the tool-use block b
ForBlock(x, b) == SameIgnoringCase(x.name, b.name) /\ x.input = b.input
\* the elements of s are for blocks of t, in the order of t, each block
\* used at most once
RECURSIVE InOrder(_, _)
InOrder(s, t) ==
  IF s = << >> THEN TRUE
  ELSE IF t = << >> THEN FALSE
  ELSE IF ForBlock(Head(s), Head(t)) THEN InOrder(Tail(s), Tail(t))
  ELSE InOrder(s, Tail(t))
\* the invocations task p has sent, as (name, input)
Sent(p) ==
  [i \in 1..Len(Invocations(p)) |->
     [name |-> Invocations(p)[i].tool, input |-> Invocations(p)[i].args]]

\* C37: while a prompt works on a response, the invocations it has sent and
\* the records it has made follow the order of the response's tool-use
\* blocks; a request is sent only when every earlier one has been answered
\* and recorded; and the returned records are the records made, in order.
C37_DispatchInResponseOrder ==
  \A p \in Tasks :
    (Prompting(p) /\ Frame(p).stage \in {"real", "pool"}) =>
      LET f == Frame(p)
          uses == ToolUses(f.content)
      IN
      /\ InOrder(Sent(p), uses)
      /\ InOrder(f.tool_results, uses)
      /\ \A i \in 1..(Len(wire[p]) - 1) : wire[p][i].st # "pending"
      /\ Len(Invocations(p)) <= Len(f.tool_results) + 1
      /\ Answered(p) => f.result.tools = f.tool_results

\* the response named "w" and then "W" with different inputs; both were
\* forwarded, in that order, and the two records are returned in that order
C37_Witness ==
  \E p \in Tasks :
    /\ Answered(p) /\ Frame(p).stage = "real"
    /\ Len(Invocations(p)) = 2
    /\ Invocations(p)[1].args = NoArgs /\ Invocations(p)[2].args # NoArgs
    /\ Len(Frame(p).result.tools) = 2
    /\ Frame(p).result.tools[1].name = <<"w">>
    /\ Frame(p).result.tools[2].name = <<"W">>


\* ------------------------------------------------ what call_tool forwards
\* C38: the invocation call_tool forwards carries the name of the catalog
\* tool the request resolved to, as the catalog spells it, and the caller's
\* arguments as they were given: the empty mapping when none were given.
C38_ForwardsCatalogNameAndArgs ==
  [][\A p \in Tasks :
       (op[p].name = "call_tool" /\ Forwards(p)) =>
         LET r == Last(wire'[p]) IN
         /\ Offers(op[p].server, r.tool)
         /\ r.tool = FirstMatch(op[p].server, op[p].tool).name
         /\ r.args = IF op[p].argsNone THEN NoArgs ELSE op[p].args]_vars

\* an invocation is in flight under the catalog's spelling, which is not the
\* caller's, with the two arguments the caller gave
C38_Witness ==
  \E p \in Tasks :
    /\ op[p].name = "call_tool" /\ pc[p] = "t_call"
    /\ Last(wire[p]).kind = "call_tool"
    /\ Last(wire[p]).tool # op[p].tool
    /\ ~op[p].argsNone /\ Last(wire[p]).args = op[p].args
    /\ DOMAIN op[p].args = {"p", "q"}

\* an invocation is in flight with the empty mapping for a call that gave no
\* arguments
C38_WitnessOmitted ==
  \E p \in Tasks :
    /\ op[p].name = "call_tool" /\ pc[p] = "t_call"
    /\ op[p].argsNone /\ Last(wire[p]).args = NoArgs


\* ------------------- POST /tools/{server_name}/{tool_name}/call (src/mcp_ui.py)
\* lines 144-156, the body of the try: None is the one result that is
\* falsy, and for it line 146 raises the HTTPException of status 404.
tool_call_try(r) ==
  IF r.kind = "None" THEN RaisedAs("404") ELSE RetVal(r.val)

\* lines 143-158: the except of line 157 takes every Exception, the
\* HTTPException of line 146 among them, and raises the one of status 500.
tool_call_response(r) ==
  LET x == tool_call_try(r) IN
  IF x.kind = "raised" THEN RaisedAs("500") ELSE x

\* lines 136-144, and call_tool up to its first await (src/mcp-client.py
\* 347-363); request.arguments is a dict, {} when the body gives none.
HttpCallStart(p, n, tn, args) ==
  /\ Begin(p, [name |-> "post_call_tool", server |-> n, tool |-> tn,
               argsNone |-> FALSE, args |-> args])
  /\ IF active_servers = {} \/ n \notin active_servers
       THEN Finish(p, RaisedAs("400")) /\ UNCHANGED <<loc, wire>>
     ELSE IF sessions = EmptyMap \/ n \notin Keys(sessions)
       THEN Finish(p, tool_call_response(RetNone)) /\ UNCHANGED <<loc, wire>>
     ELSE /\ loc' = [loc EXCEPT ![p].arguments = args]
          /\ Send(p, Req(n, sessions[n], "list_tools", << >>, NoArgs))
          /\ Goto(p, "h_list")       \* await sessions[server_name].list_tools()
  /\ UNCHANGED <<translation, config_file, server_params, config_loaded, conn, exit_stack>>

\* call_tool from the catalog's arrival to the invocation (src/mcp-client.py
\* 363-390), as in CallListed; what it returns goes through lines 145-158.
HttpCallListed(p, ok) ==
  /\ pc[p] = "h_list"
  /\ LET n == op[p].server
         tools == Catalog(n)
         i == select_tool(tools, op[p].tool)
         miss == missing_args(tools[i], loc[p].arguments)
     IN
     IF ~ok \/ i = 0
       THEN /\ wire' = [wire EXCEPT ![p] = Reply(p, ok)]
            /\ Finish(p, tool_call_response(RetNone))
            /\ UNCHANGED loc
     ELSE IF miss # << >>
       THEN /\ wire' = [wire EXCEPT ![p] = Reply(p, ok)]
            /\ loc' = [loc EXCEPT ![p].selected = tools[i], ![p].missing = miss]
            /\ Finish(p, tool_call_response(RetNone))
     ELSE IF n \notin Keys(sessions)
       THEN /\ wire' = [wire EXCEPT ![p] = Reply(p, ok)]
            /\ loc' = [loc EXCEPT ![p].selected = tools[i]]
            /\ Finish(p, tool_call_response(RetNone))
     ELSE /\ wire' = [wire EXCEPT ![p] = Append(Reply(p, ok),
               Req(n, sessions[n], "call_tool", tools[i].name, loc[p].arguments))]
          /\ loc' = [loc EXCEPT ![p].selected = tools[i]]
          /\ Goto(p, "h_call")        \* await sessions[server_name].call_tool()
  /\ UNCHANGED <<translation, config_file, server_params, config_loaded, conn, exit_stack, op>>

\* the invocation answered (src/mcp-client.py 390-401), then lines 145-158
HttpCallReturned(p, ok) ==
  /\ pc[p] = "h_call"
  /\ wire' = [wire EXCEPT ![p] = Reply(p, ok)]
  /\ Finish(p, tool_call_response(call_result(Reply(p, ok), ok)))
  /\ UNCHANGED <<translation, config_file, server_params, config_loaded, conn, exit_stack, op, loc>>

\* The session manager behind the tool-call endpoint.
NextHttp ==
  \/ Next
  \/ \E p \in Readers, n \in Names, tn \in ToolNames, args \in ArgMaps :
       HttpCallStart(p, n, tn, args)
  \/ \E p \in Readers, ok \in BOOLEAN : HttpCallListed(p, ok)
  \/ \E p \in Readers, ok \in BOOLEAN : HttpCallReturned(p, ok)

SpecHttp == Init /\ [][NextHttp]_vars

\* task p takes a step of the endpoint in which call_tool returns None:
\* the server is not in the session map, the listing failed, no tool or
\* not every required argument was found, or the invocation failed
CallGaveNone(p) ==
  \/ /\ Starts(p, "post_call_tool")
     /\ op'[p].server \in active_servers
     /\ op'[p].server \notin Keys(sessions)
  \/ /\ op[p].name = "post_call_tool" /\ pc[p] = "h_list"
     /\ pc'[p] \notin {"h_list", "h_call"}
  \/ /\ op[p].name = "post_call_tool" /\ pc[p] = "h_call" /\ pc'[p] # "h_call"
     /\ Last(wire'[p]).st = "fail"

\* C39: the endpoint answers 400 when the server is not among the connected
\* servers, 404 when call_tool returned None, and never 500 (call_tool
\* raises nothing).
C39_ToolCallStatuses ==
  [][\A p \in Tasks :
       /\ (Starts(p, "post_call_tool") /\ op'[p].server \notin active_servers)
            => ret'[p] = RaisedAs("400")
       /\ CallGaveNone(p) => ret'[p] = RaisedAs("404")
       /\ op'[p].name = "post_call_tool" => ret'[p] # RaisedAs("500")]_vars


\* ------------------------------------------------------ a failed load
\* C40: when load_config has reported failure, the registry holds no entry
\* of the configuration it rejected.
C40_FailedLoadRegistersNothing ==
  config_loaded = "failed" => server_params = {}

====
